---------------------------- MODULE Spec2Model ----------------------------
(***************************************************************************)
(* Model of the financial aggregation engine of FinanceAiReporter:         *)
(*   src/utils/data_utils.py       validation and preprocessing            *)
(*   src/utils/financial_utils.py  classification and statement calculators*)
(*   src/utils/gemini_utils.py     narrative generation and its fallbacks  *)
(*   src/utils/openai_utils.py     rule-based chat and report content      *)
(*   src/app.py, src/components/   the session the pages share             *)
(*                                                                         *)
(* A pandas DataFrame is a record [cols, rows]: the set of column names    *)
(* and the sequence of rows.  Every row is a record with one field per     *)
(* column the engine knows; a field of a column that the table does not    *)
(* have holds the placeholder of its kind.  Dates are day numbers of a     *)
(* scaled calendar, amounts are integers (the engine's arithmetic is sums, *)
(* differences and abs; quotients are kept as fractions).                  *)
(***************************************************************************)
EXTENDS Integers, Sequences, FiniteSets, TLC

VARIABLES
    df,     \* the caller's table (the DataFrame object the caller holds)
    pre,    \* the argument table as it was when the last call was made
    op,     \* the operation that ran last
    args,   \* its other arguments
    res,    \* what it returned
    session_state,         \* st.session_state of the user's session
    gemini_api_available   \* GEMINI_API_KEY was set when the pages were imported

vars == <<df, pre, op, args, res, session_state, gemini_api_available>>

---------------------------------------------------------------------------
(* Bounds of the model *)

MaxRows == 2

---------------------------------------------------------------------------
(* Cells.  k is the kind of value a cell holds:                            *)
(*   "num"  a number (int64 / float64)                                     *)
(*   "ts"   a Timestamp (datetime64), v is the day number                  *)
(*   "str"  a string that parses (as the date v, or as the number v)       *)
(*   "bad"  a string that parses neither as a date nor as a number         *)
(*   "null" None / NaN / NaT                                               *)
(*   "absent" placeholder: the table has no such column                    *)

Num(n) == [k |-> "num", v |-> n]
Ts(d)  == [k |-> "ts", v |-> d]
Str(n) == [k |-> "str", v |-> n]
Bad    == [k |-> "bad", v |-> 0]
Null   == [k |-> "null", v |-> 0]
Absent == [k |-> "absent", v |-> 0]

\* Text cells are strings; two strings are set aside for null and absent.
NullTxt   == "<null>"
AbsentTxt == "<absent>"

\* No date argument (Python's None).
NoDate == 0

CellCols == {"date", "amount", "month", "year"}
TextCols == {"description", "category", "subcategory", "account_type",
             "transaction_type", "month_year"}
Columns  == CellCols \cup TextCols

EmptyRow ==
    [date |-> Absent, amount |-> Absent, month |-> Absent, year |-> Absent,
     description |-> AbsentTxt, category |-> AbsentTxt,
     subcategory |-> AbsentTxt, account_type |-> AbsentTxt,
     transaction_type |-> AbsentTxt, month_year |-> AbsentTxt]

\* The rows of `rows` that satisfy Test, in order (boolean-mask indexing).
Mask(rows, Test(_)) == SelectSeq(rows, Test)

\* rows with column c set row by row to F(row) (df[c] = ...).
SetCol(rows, c, F(_)) == [i \in 1..Len(rows) |-> [rows[i] EXCEPT ![c] = F(rows[i])]]

RECURSIVE SumSeq(_)
SumSeq(s) == IF s = <<>> THEN 0 ELSE Head(s) + SumSeq(Tail(s))

\* Series.sum(): NaN is skipped, the sum of nothing is 0.
SumAmount(rows) ==
    LET nums == SelectSeq(rows, LAMBDA r : r.amount.k = "num")
    IN  SumSeq([i \in 1..Len(nums) |-> nums[i].amount.v])

Abs(x) == IF x < 0 THEN -x ELSE x

---------------------------------------------------------------------------
(* pandas conversions *)

\* pd.to_numeric(column, errors='coerce'), cell by cell: what does not parse
\* becomes NaN.
ToNumericCoerce(c) ==
    CASE c.k = "num" -> c
      [] c.k = "str" -> Num(c.v)
      [] OTHER       -> Null

\* pd.to_datetime(column, errors='coerce'), cell by cell: what does not parse
\* becomes NaT.
ToDatetimeCoerce(c) ==
    CASE c.k = "ts"  -> c
      [] c.k = "str" -> Ts(c.v)
      [] OTHER       -> Null

---------------------------------------------------------------------------
(* categorize_transactions *)

income_keywords  == {"salary", "income", "revenue", "deposit", "interest", "dividend"}
expense_keywords == {"purchase", "payment", "expense", "fee", "bill", "subscription"}

\* The keywords of both lists that occur in str(description).lower(), for the
\* descriptions of the model ('keyword in desc' is a substring test).
KeywordsIn(desc) ==
    CASE desc = "Salary deposit" -> {"salary", "deposit"}
      [] desc = "Bill payment"   -> {"bill", "payment"}
      [] desc = "Salary"         -> {"salary"}
      [] desc = "Rent"           -> {}
      [] OTHER                   -> {}

\* assign_category with the first test written amount >= 0.
assign_category_zero_income(row) ==
    LET amount == row.amount
    IN  IF amount.k = "num" /\ amount.v >= 0 THEN "Income"
        ELSE IF amount.k = "num" /\ amount.v < 0 THEN "Expense"
        ELSE "Unknown"

\* assign_category with the keyword lists deciding where they match.
assign_category_by_keyword(row) ==
    LET desc   == KeywordsIn(row.description)
        amount == row.amount
    IN  IF desc \cap income_keywords # {} THEN "Income"
        ELSE IF desc \cap expense_keywords # {} THEN "Expense"
        ELSE IF amount.k = "num" /\ amount.v > 0 THEN "Income"
        ELSE IF amount.k = "num" /\ amount.v < 0 THEN "Expense"
        ELSE "Unknown"

\* assign_category(row), lines 31-46.
assign_category(row) ==
    LET desc   == KeywordsIn(row.description)
        amount == row.amount
    IN  IF amount.k = "num" /\ amount.v > 0
        THEN IF desc \cap income_keywords # {} THEN "Income" ELSE "Income"
        ELSE IF amount.k = "num" /\ amount.v < 0
        THEN IF desc \cap expense_keywords # {} THEN "Expense" ELSE "Expense"
        ELSE "Unknown"

\* The table categorize_transactions returns.
CategorizedTable(t) ==
    LET r1 == IF "amount" \in t.cols
              THEN SetCol(t.rows, "amount", LAMBDA r : ToNumericCoerce(r.amount))
              ELSE t.rows
    IN  IF "category" \notin t.cols /\ "description" \in t.cols /\ "amount" \in t.cols
        THEN [cols |-> t.cols \cup {"category"},
              rows |-> SetCol(r1, "category", assign_category)]
        ELSE [cols |-> t.cols, rows |-> r1]

\* categorize_transactions without the copy: the coercion of amount lands in
\* the caller's table.
categorize_transactions_inplace(t) ==
    [caller |-> [cols |-> t.cols,
                 rows |-> IF "amount" \in t.cols
                          THEN SetCol(t.rows, "amount", LAMBDA r : ToNumericCoerce(r.amount))
                          ELSE t.rows],
     out |-> CategorizedTable(t)]

\* categorize_transactions(df): works on a copy, so the caller's table stays
\* as it was.  caller is the caller's table after the call, out what is returned.
categorize_transactions(t) == [caller |-> t, out |-> CategorizedTable(t)]


---------------------------------------------------------------------------
(* Date filters of the calculators *)

\* data['date'] = pd.to_datetime(data['date'], errors='coerce') when the
\* table has a date column.
DateCoerced(t) ==
    IF "date" \in t.cols
    THEN [cols |-> t.cols,
          rows |-> SetCol(t.rows, "date", LAMBDA r : ToDatetimeCoerce(r.date))]
    ELSE t

\* The start bound taken as exclusive.
OnOrAfter_exclusive(rows, start) == Mask(rows, LAMBDA r : r.date.k = "ts" /\ r.date.v > start)

\* data[data['date'] >= start_date]: a comparison with NaT is False.
OnOrAfter(rows, start) == Mask(rows, LAMBDA r : r.date.k = "ts" /\ r.date.v >= start)

\* The end bound taken as exclusive.
OnOrBefore_exclusive(rows, end) == Mask(rows, LAMBDA r : r.date.k = "ts" /\ r.date.v < end)

\* data[data['date'] <= end_date]
OnOrBefore(rows, end) == Mask(rows, LAMBDA r : r.date.k = "ts" /\ r.date.v <= end)

\* Lines 67-77 (and 189-199): coerce date, then keep [start, end]; a bound
\* that is None does not filter, a table without date is not filtered.
FilterByDates(t, start, end) ==
    IF "date" \in t.cols
    THEN LET d  == DateCoerced(t)
             r1 == IF start # NoDate THEN OnOrAfter(d.rows, start) ELSE d.rows
             r2 == IF end # NoDate THEN OnOrBefore(r1, end) ELSE r1
         IN  [cols |-> t.cols, rows |-> r2]
    ELSE t

---------------------------------------------------------------------------
(* calculate_income_statement *)

WithCategory(rows, c) == Mask(rows, LAMBDA r : r.category = c)

\* Total expenses without the abs().
ExpenseTotal_signed(rows) == SumAmount(WithCategory(rows, "Expense"))

\* Line 85: abs(data[data['category'] == 'Expense']['amount'].sum())
ExpenseTotal(rows) == Abs(SumAmount(WithCategory(rows, "Expense")))

\* Line 82: data[data['category'] == 'Income']['amount'].sum()
IncomeTotal(rows) == SumAmount(WithCategory(rows, "Income"))

\* The keys of rows.groupby('subcategory'): NaN keys are dropped.
SubcategoryKeys(rows) ==
    {rows[i].subcategory : i \in 1..Len(rows)} \ {NullTxt}

\* Lines 90-100: a mapping subcategory -> total of the rows of category c,
\* empty when the table has no subcategory column.
Breakdown(t, c, Total(_)) ==
    IF "subcategory" \in t.cols
    THEN LET rows == WithCategory(t.rows, c)
         IN  [k \in SubcategoryKeys(rows) |->
                 Total(Mask(rows, LAMBDA r : r.subcategory = k))]
    ELSE << >>

\* An aggregate of zeros in the place of the error marker.
ErrorMarker_zeros ==
    [kind |-> "ok", total_income |-> 0, total_expenses |-> 0, net_income |-> 0]

\* Lines 114-116: {'error': 'Data format does not contain required columns
\* (amount, category)'}
ErrorMarker == [kind |-> "error"]

calculate_income_statement(t, start, end) ==
    LET data == FilterByDates(categorize_transactions(t).out, start, end)
    IN  [caller |-> t,
         out |->
            IF "amount" \in data.cols /\ "category" \in data.cols
            THEN LET income   == IncomeTotal(data.rows)
                     expenses == ExpenseTotal(data.rows)
                 IN  [kind |-> "ok",
                      total_income |-> income,
                      total_expenses |-> expenses,
                      net_income |-> income - expenses,
                      expense_breakdown |->
                          Breakdown(data, "Expense", LAMBDA g : Abs(SumAmount(g))),
                      income_breakdown |->
                          Breakdown(data, "Income", LAMBDA g : SumAmount(g)),
                      time_period |-> [start_date |-> start, end_date |-> end]]
            ELSE ErrorMarker]

---------------------------------------------------------------------------
(* calculate_balance_sheet *)

asset_accounts     == {"cash", "bank", "investment", "receivable", "asset"}
liability_accounts == {"loan", "credit", "payable", "debt", "liability"}

\* str.lower() for the account and transaction types of the model; NaN
\* stays NaN.
Lower(s) ==
    CASE s = "Cash"      -> "cash"
      [] s = "LOAN"      -> "loan"
      [] s = "Equipment" -> "equipment"
      [] s = "Sale"      -> "sale"
      [] s = "Gift"      -> "gift"
      [] OTHER           -> s

\* Equity with the liabilities added.
Equity_sum(assets, liabilities) == assets + liabilities

\* Lines 159 and 165: equity = assets - liabilities
Equity(assets, liabilities) == assets - liabilities

\* Liabilities with the sign of the sum kept.
Liabilities_signed(rows) == SumAmount(rows)

\* Lines 156 and 164: liabilities = abs(<selected rows>['amount'].sum())
Liabilities(rows) == Abs(SumAmount(rows))

\* Lines 142-165: assets, liabilities and equity of the filtered rows.
BalanceTotals(data) ==
    IF "account_type" \in data.cols /\ "amount" \in data.cols
    THEN LET assets == SumAmount(Mask(data.rows,
                          LAMBDA r : Lower(r.account_type) \in asset_accounts))
             liabilities == Liabilities(Mask(data.rows,
                          LAMBDA r : Lower(r.account_type) \in liability_accounts))
         IN  [assets |-> assets, liabilities |-> liabilities,
              equity |-> Equity(assets, liabilities)]
    ELSE IF "amount" \in data.cols
    THEN LET assets == SumAmount(Mask(data.rows,
                          LAMBDA r : r.amount.k = "num" /\ r.amount.v > 0))
             liabilities == Liabilities(Mask(data.rows,
                          LAMBDA r : r.amount.k = "num" /\ r.amount.v < 0))
         IN  [assets |-> assets, liabilities |-> liabilities,
              equity |-> Equity(assets, liabilities)]
    ELSE [assets |-> 0, liabilities |-> 0, equity |-> 0]

\* The date of the call as the label, whatever as_of_date is.
AsOfLabel_now(as_of, now) == now

\* Line 171: as_of_date when it is given, else the date of the call.
AsOfLabel(as_of, now) == IF as_of # NoDate THEN as_of ELSE now

\* now is the day datetime.now() falls on.
calculate_balance_sheet(t, as_of, now) ==
    LET data == FilterByDates(categorize_transactions(t).out, NoDate, as_of)
        b    == BalanceTotals(data)
    IN  [caller |-> t,
         out |-> [kind |-> "ok",
                  total_assets |-> b.assets,
                  total_liabilities |-> b.liabilities,
                  total_equity |-> b.equity,
                  as_of_date |-> AsOfLabel(as_of, now)]]

---------------------------------------------------------------------------
(* calculate_financial_ratios *)

\* A quotient n / d of two floats, kept as a fraction.  Python raises
\* ZeroDivisionError on d = 0: such a fraction stands for the raise.
Frac(n, d) == [num |-> n, den |-> d]
Zero == [num |-> 0, den |-> 1]

\* The quotient with no safety check.
UnsafeRatio(n, d) == Frac(n, d)

\* Lines 268-272: (n / d) if d else 0
SafeRatio(n, d) == IF d # 0 THEN Frac(n, d) ELSE Zero

\* dict.get(key, 0) on a statement: 0 when it is the error marker.
Get(stmt, key) == IF stmt.kind = "ok" THEN stmt[key] ELSE 0

\* Lines 260-280: the ratios of an income statement and a balance sheet.
RatiosOf(income_statement, balance_sheet) ==
    LET total_revenue     == Get(income_statement, "total_income")
        net_income        == Get(income_statement, "net_income")
        total_assets      == Get(balance_sheet, "total_assets")
        total_liabilities == Get(balance_sheet, "total_liabilities")
        total_equity      == Get(balance_sheet, "total_equity")
    IN  [profit_margin      |-> SafeRatio(net_income, total_revenue),
         return_on_assets   |-> SafeRatio(net_income, total_assets),
         return_on_equity   |-> SafeRatio(net_income, total_equity),
         debt_to_equity     |-> SafeRatio(total_liabilities, total_equity),
         asset_to_liability |-> SafeRatio(total_assets, total_liabilities)]

\* float(ratio) of every ratio: a quotient by zero has raised before.
RatiosResult(ratios) ==
    IF \E k \in DOMAIN ratios : ratios[k].den = 0
    THEN [kind |-> "raise", error |-> "ZeroDivisionError"]
    ELSE [kind |-> "ok"] @@ ratios

\* Both statements are computed over the whole table (lines 257-258).
calculate_financial_ratios(t, now) ==
    [caller |-> t,
     out |-> RatiosResult(RatiosOf(calculate_income_statement(t, NoDate, NoDate).out,
                                   calculate_balance_sheet(t, NoDate, now).out))]

---------------------------------------------------------------------------
(* validate_transaction_data *)

required_columns == {"date", "amount", "description"}
essential_cols   == <<"date", "amount">>

\* A column holds a cell the strict parsers (no errors= argument) raise on.
Unparseable(t, c) == \E i \in 1..Len(t.rows) : t.rows[i][c].k = "bad"

\* The number of nulls of column c: df[c].isna().sum()
IsnaSum(t, c) == Cardinality({i \in 1..Len(t.rows) : t.rows[i][c].k = "null"})

\* df.empty, never true.
Empty_never(t) == FALSE

\* Line 38: df.empty (the required columns exist at that point).
Empty(t) == Len(t.rows) = 0

Rejected(t, reason, detail) ==
    [caller |-> t, out |-> [ok |-> FALSE, reason |-> reason, detail |-> detail]]

\* Lines 37-48, on the table as the two conversions left it.
ValidateValues(t) ==
    IF Empty(t) THEN Rejected(t, "no data", {})
    ELSE IF IsnaSum(t, essential_cols[1]) > 0
    THEN Rejected(t, "missing values", {essential_cols[1]})
    ELSE IF IsnaSum(t, essential_cols[2]) > 0
    THEN Rejected(t, "missing values", {essential_cols[2]})
    ELSE [caller |-> t, out |-> [ok |-> TRUE, reason |-> "successful", detail |-> {}]]

\* Lines 31-35: df['amount'] = pd.to_numeric(df['amount']) assigns into the
\* caller's table; a raise leaves the column as it was.
ValidateAmount(t) ==
    IF Unparseable(t, "amount") THEN Rejected(t, "amount not numeric", {"amount"})
    ELSE ValidateValues([cols |-> t.cols,
             rows |-> SetCol(t.rows, "amount", LAMBDA r : ToNumericCoerce(r.amount))])

\* Lines 25-29: df['date'] = pd.to_datetime(df['date']) assigns into the
\* caller's table; a raise leaves the column as it was.
ValidateDate(t) ==
    IF Unparseable(t, "date") THEN Rejected(t, "date not parsed", {"date"})
    ELSE ValidateAmount([cols |-> t.cols,
             rows |-> SetCol(t.rows, "date", LAMBDA r : ToDatetimeCoerce(r.date))])

\* validate_transaction_data(df): out is the (is_valid, message) pair, caller
\* the caller's table after the call.
validate_transaction_data(t) ==
    IF required_columns \ t.cols # {}
    THEN Rejected(t, "missing columns", required_columns \ t.cols)
    ELSE ValidateDate(t)

---------------------------------------------------------------------------
(* preprocess_transaction_data *)

\* The scaled calendar: a month has DaysPerMonth days, day 1 is the first day
\* of January of BaseYear.
DaysPerMonth == 2
BaseYear == 2023

MonthIndex(d) == (d - 1) \div DaysPerMonth
MonthOf(d) == (MonthIndex(d) % 12) + 1
YearOf(d)  == BaseYear + (MonthIndex(d) \div 12)

\* strftime('%Y-%m')
YearMonth(d) ==
    ToString(YearOf(d)) \o "-" \o (IF MonthOf(d) < 10 THEN "0" ELSE "")
        \o ToString(MonthOf(d))

\* Lines 63-69: both conversions with errors='coerce'.
Coerced(t) ==
    LET r1 == IF "date" \in t.cols
              THEN SetCol(t.rows, "date", LAMBDA r : ToDatetimeCoerce(r.date))
              ELSE t.rows
    IN  IF "amount" \in t.cols
        THEN SetCol(r1, "amount", LAMBDA r : ToNumericCoerce(r.amount))
        ELSE r1

\* fillna(0) on a cell of a numeric column.
Fill0(c) == IF c.k = "null" THEN Num(0) ELSE c

\* fillna('') on a cell of an object column.
FillEmpty(x) == IF x = NullTxt THEN "" ELSE x

\* Lines 71-78 on one row: the numeric columns (amount, and month and year
\* when the table came with them) get 0, the object columns get '', the
\* datetime column is left alone.
FillRow(r) ==
    [date |-> r.date,
     amount |-> Fill0(r.amount), month |-> Fill0(r.month), year |-> Fill0(r.year),
     description |-> FillEmpty(r.description),
     category |-> FillEmpty(r.category),
     subcategory |-> FillEmpty(r.subcategory),
     account_type |-> FillEmpty(r.account_type),
     transaction_type |-> FillEmpty(r.transaction_type),
     month_year |-> FillEmpty(r.month_year)]

\* Lines 80-84 on one row, month and year only derived when missing.
DeriveRow_once(r) ==
    IF r.date.k = "ts"
    THEN [r EXCEPT !.month = IF @.k = "absent" THEN Num(MonthOf(r.date.v)) ELSE @,
                   !.year = IF @.k = "absent" THEN Num(YearOf(r.date.v)) ELSE @,
                   !.month_year = YearMonth(r.date.v)]
    ELSE [r EXCEPT !.month = IF @.k = "absent" THEN Null ELSE @,
                   !.year = IF @.k = "absent" THEN Null ELSE @,
                   !.month_year = NullTxt]

\* Lines 80-84 on one row: month, year and month_year of the date; NaT gives
\* NaN in all three.
DeriveRow(r) ==
    IF r.date.k = "ts"
    THEN [r EXCEPT !.month = Num(MonthOf(r.date.v)),
                   !.year = Num(YearOf(r.date.v)),
                   !.month_year = YearMonth(r.date.v)]
    ELSE [r EXCEPT !.month = Null, !.year = Null, !.month_year = NullTxt]

\* sort_values(by='date') with the default kind='quicksort', which is not
\* stable: dates ascend, NaT comes last (the NaT rows in their old order),
\* and rows with equal dates come in an order the sort does not promise.
\* p[i] is the old position of the row that lands at position i.
SortOrders(rows) ==
    {p \in [1..Len(rows) -> 1..Len(rows)] :
        /\ \A i, j \in 1..Len(rows) : i # j => p[i] # p[j]
        /\ \A i, j \in 1..Len(rows) : i < j =>
              \/ /\ rows[p[i]].date.k = "ts"
                 /\ rows[p[j]].date.k = "ts"
                 /\ rows[p[i]].date.v <= rows[p[j]].date.v
              \/ /\ rows[p[i]].date.k = "ts"
                 /\ rows[p[j]].date.k # "ts"
              \/ /\ rows[p[i]].date.k # "ts"
                 /\ rows[p[j]].date.k # "ts"
                 /\ p[i] < p[j]}

\* The filled table with its derived columns, before the sort.
Prepared(t) ==
    LET filled == [i \in 1..Len(t.rows) |-> FillRow(Coerced(t)[i])]
    IN  IF "date" \in t.cols
        THEN [cols |-> t.cols \cup {"month", "year", "month_year"},
              rows |-> [i \in 1..Len(filled) |-> DeriveRow(filled[i])]]
        ELSE [cols |-> t.cols, rows |-> filled]

\* Line 88: the tables the sort may leave.
Sorted(prep) ==
    {[cols |-> prep.cols,
      rows |-> [i \in 1..Len(prep.rows) |-> prep.rows[p[i]]]]
        : p \in SortOrders(prep.rows)}

\* preprocess_transaction_data(df): works on a copy; outs are the tables it
\* may return, one per order the sort may leave equal dates in.
preprocess_transaction_data(t) ==
    [caller |-> t,
     outs |-> IF "date" \in t.cols THEN Sorted(Prepared(t)) ELSE {Prepared(t)}]

---------------------------------------------------------------------------
(* Input tables *)

\* The values a column's cells are drawn from: S when the table has the
\* column, its placeholder otherwise.
Field(cols, c, S, absent) == IF c \in cols THEN S ELSE {absent}

\* All rows over the given value sets, for a table with columns cols.
RowsOver(cols, D, A, Desc, Cat, Sub, Acct, TT) ==
    [date : Field(cols, "date", D, Absent),
     amount : Field(cols, "amount", A, Absent),
     month : {Absent}, year : {Absent}, month_year : {AbsentTxt},
     description : Field(cols, "description", Desc, AbsentTxt),
     category : Field(cols, "category", Cat, AbsentTxt),
     subcategory : Field(cols, "subcategory", Sub, AbsentTxt),
     account_type : Field(cols, "account_type", Acct, AbsentTxt),
     transaction_type : Field(cols, "transaction_type", TT, AbsentTxt)]

Descriptions == {"Salary deposit", "Bill payment", "Rent"}
Categories   == {"Income", "Expense", "Transfer"}

\* Tables handed to the classifier: amounts of both signs, zero, NaN and
\* unparseable text; with and without description and category.
ClassifyAmounts == {Num(-2), Num(0), Num(3), Bad, Null}
ClassifyCols ==
    {{"amount", "description"}, {"amount"}, {"description"},
     {"amount", "description", "category"}, {"amount", "category"}}
NoArgs == [start |-> NoDate, end |-> NoDate]
NoRes  == [kind |-> "none"]

\* transaction_data = None
None == [kind |-> "None"]

\* app.py lines 10-21: the session state a new session starts with.
initialize_session_state ==
    [data_uploaded |-> FALSE,
     transaction_data |-> None,
     chat_history |-> << >>,
     generated_reports |-> << >>,
     current_page |-> "Upload Data"]

---------------------------------------------------------------------------
(* The classifier as a state machine: a caller holding a table calls       *)
(* categorize_transactions on it.                                          *)

InitClassify ==
    /\ \E c \in ClassifyCols, n \in 0..MaxRows :
          \E s \in [1..n -> RowsOver(c, {}, ClassifyAmounts, Descriptions,
                                     Categories, {}, {}, {})] :
              df = [cols |-> c, rows |-> s]
    /\ pre = df
    /\ op = "init"
    /\ args = NoArgs
    /\ res = NoRes
    /\ session_state = initialize_session_state
    /\ gemini_api_available = FALSE

Categorize ==
    /\ op = "init"
    /\ LET r == categorize_transactions(df)
       IN  /\ df' = r.caller
           /\ res' = r.out
    /\ pre' = df
    /\ op' = "categorize"
    /\ UNCHANGED <<session_state, gemini_api_available>>
    /\ UNCHANGED args

NextClassify == Categorize

SpecClassify == InitClassify /\ [][NextClassify]_vars

---------------------------------------------------------------------------
(* Claims about the classifier *)

IsNumber(c) == c.k = "num"

\* The category column of a table, and whether it has one.
Classes(t) ==
    [has |-> "category" \in t.cols,
     cats |-> [i \in 1..Len(t.rows) |-> t.rows[i].category]]

\* C3 as stated: in the default path (no category column) every row gets a
\* category in {Income, Expense, Unknown}, Income iff amount > 0, Expense iff
\* amount < 0, and Unknown only for rows whose amount equals 0.
C3_AsStated ==
    (op = "categorize" /\ "category" \notin pre.cols) =>
        /\ "category" \in res.cols
        /\ \A i \in 1..Len(res.rows) :
            LET a == res.rows[i].amount
                c == res.rows[i].category
            IN  /\ c \in {"Income", "Expense", "Unknown"}
                /\ (c = "Income") <=> (IsNumber(a) /\ a.v > 0)
                /\ (c = "Expense") <=> (IsNumber(a) /\ a.v < 0)
                /\ (c = "Unknown") => (IsNumber(a) /\ a.v = 0)

\* C3 amended: a table without category that has both amount and description
\* gets a category in {Income, Expense, Unknown} on every row, Income iff
\* amount > 0, Expense iff amount < 0, Unknown iff amount is 0 or is not a
\* number (NaN after coercion); a table without category that lacks amount or
\* description gets no category column.
C3_SignClassification ==
    (op = "categorize" /\ "category" \notin pre.cols) =>
        IF {"amount", "description"} \subseteq pre.cols
        THEN /\ "category" \in res.cols
             /\ Len(res.rows) = Len(pre.rows)
             /\ \A i \in 1..Len(res.rows) :
                 LET a == res.rows[i].amount
                     c == res.rows[i].category
                 IN  /\ a = ToNumericCoerce(pre.rows[i].amount)
                     /\ c \in {"Income", "Expense", "Unknown"}
                     /\ (c = "Income") <=> (IsNumber(a) /\ a.v > 0)
                     /\ (c = "Expense") <=> (IsNumber(a) /\ a.v < 0)
                     /\ (c = "Unknown") <=> (~IsNumber(a) \/ a.v = 0)
        ELSE "category" \notin res.cols

\* A classified table with an Income row, and an Unknown row whose amount is
\* not a number.
C3_Witness ==
    /\ op = "categorize"
    /\ "category" \notin pre.cols
    /\ "category" \in res.cols
    /\ \E i, j \in 1..Len(res.rows) :
        /\ res.rows[i].category = "Income"
        /\ res.rows[j].category = "Unknown"
        /\ res.rows[j].amount = Null

\* C4: when the input has a category column, the returned table has the same
\* category on every row whatever the amount's sign, and the caller's table is
\* as it was before the call.
C4_CategoryKept ==
    (op = "categorize" /\ "category" \in pre.cols) =>
        /\ res.cols = pre.cols
        /\ Len(res.rows) = Len(pre.rows)
        /\ \A i \in 1..Len(res.rows) : res.rows[i].category = pre.rows[i].category
        /\ df = pre

\* A table with a pre-supplied Income on a negative amount and an unparseable
\* amount cell went through the classifier.
C4_Witness ==
    /\ op = "categorize"
    /\ "category" \in pre.cols
    /\ \E i, j \in 1..Len(pre.rows) :
        /\ pre.rows[i].category = "Income"
        /\ pre.rows[i].amount = Num(-2)
        /\ res.rows[i].category = "Income"
        /\ pre.rows[j].amount = Bad

\* The tables that agree with t on everything but the description column:
\* any descriptions, or no description column.
DescriptionVariants(t) ==
    {[cols |-> t.cols \ {"description"},
      rows |-> SetCol(t.rows, "description", LAMBDA r : AbsentTxt)]}
    \cup
    {[cols |-> t.cols \cup {"description"},
      rows |-> [i \in 1..Len(t.rows) |-> [t.rows[i] EXCEPT !.description = d[i]]]]
        : d \in [1..Len(t.rows) -> Descriptions]}

\* C5 as stated: two tables that agree on amount and on the category column
\* (or its absence) get the same classification, whatever their description
\* column holds and whether or not it is there.
C5_AsStated ==
    (op = "categorize") =>
        \A t2 \in DescriptionVariants(pre) :
            Classes(categorize_transactions(t2).out) = Classes(res)

\* C5 amended: two tables that agree on amount, on the category column (or its
\* absence) and on whether they have a description column get the same
\* classification whatever the descriptions hold.
C5_DescriptionContentIgnored ==
    (op = "categorize") =>
        \A t2 \in DescriptionVariants(pre) :
            (("description" \in t2.cols) <=> ("description" \in pre.cols)) =>
                Classes(categorize_transactions(t2).out) = Classes(res)

\* A positive amount described with an expense keyword was classified Income.
C5_Witness ==
    /\ op = "categorize"
    /\ "category" \notin pre.cols
    /\ "category" \in res.cols
    /\ \E i \in 1..Len(res.rows) :
        /\ pre.rows[i].description = "Bill payment"
        /\ res.rows[i].amount = Num(3)
        /\ res.rows[i].category = "Income"

---------------------------------------------------------------------------
(* The statement calculators as a state machine: a caller holding a table  *)
(* asks for an income statement, a balance sheet or the ratios.            *)

MaxDay == 3

Days == 1..MaxDay

\* The date bounds the callers pass: none, or the second day.
BoundChoices == {NoDate, 2}

\* The days datetime.now() may fall on: after every date of the table.
Clock == {MaxDay + 1, MaxDay + 2}

AccountTypes == {"Cash", "LOAN", "Equipment"}

StatementCols ==
    {{"date", "amount", "description"},
     {"date", "amount", "description", "category"},
     {"date", "amount", "description", "account_type"},
     {"amount", "description"}, {"date", "amount"}, {"date", "description"}}

\* Tables with exactly the required columns may hold NaT and NaN; the dates
\* and amounts of the other tables are clean.
CleanDates   == {Ts(d) : d \in Days}
CleanAmounts == {Num(-2), Num(3)}
StatementRows(c) ==
    IF c = {"date", "amount", "description"}
    THEN RowsOver(c, CleanDates \cup {Null}, CleanAmounts \cup {Num(2), Null},
                  {"Rent"}, {}, {}, {}, {})
    ELSE RowsOver(c, CleanDates, CleanAmounts, {"Rent"},
                  Categories, {}, AccountTypes, {})

\* The single row of amount 1000 of the balance sheet example.
SingleRow1000 ==
    [cols |-> {"date", "amount", "description"},
     rows |-> <<[EmptyRow EXCEPT !.date = Ts(1), !.amount = Num(1000),
                                 !.description = "Rent"]>>]

InitStatements ==
    /\ \/ \E c \in StatementCols, n \in 0..MaxRows :
             \E s \in [1..n -> StatementRows(c)] :
                 df = [cols |-> c, rows |-> s]
       \/ df = SingleRow1000
    /\ pre = df
    /\ op = "init"
    /\ args = NoArgs
    /\ res = NoRes
    /\ session_state = initialize_session_state
    /\ gemini_api_available = FALSE

IncomeStatement ==
    \E start \in BoundChoices, end \in BoundChoices :
        /\ op = "init"
        /\ LET r == calculate_income_statement(df, start, end)
           IN  /\ df' = r.caller
               /\ res' = r.out
               /\ pre' = df
               /\ op' = "income_statement"
               /\ UNCHANGED <<session_state, gemini_api_available>>
               /\ args' = [start |-> start, end |-> end]

BalanceSheet ==
    \E as_of \in BoundChoices, now \in Clock :
        /\ op = "init"
        /\ LET r == calculate_balance_sheet(df, as_of, now)
           IN  /\ df' = r.caller
               /\ res' = r.out
               /\ pre' = df
               /\ op' = "balance_sheet"
               /\ UNCHANGED <<session_state, gemini_api_available>>
               /\ args' = [start |-> NoDate, end |-> as_of]

Ratios ==
    \E now \in Clock :
        /\ op = "init"
        /\ LET r == calculate_financial_ratios(df, now)
           IN  /\ df' = r.caller
               /\ res' = r.out
               /\ pre' = df
               /\ op' = "ratios"
               /\ UNCHANGED <<session_state, gemini_api_available>>
               /\ args' = NoArgs

NextStatements == IncomeStatement \/ BalanceSheet \/ Ratios

SpecStatements == InitStatements /\ [][NextStatements]_vars

---------------------------------------------------------------------------
(* Claims about the statement calculators *)

\* C1: whatever the table and the as_of date, in the account_type path and in
\* the sign-based path, the balance sheet has
\* total_equity = total_assets - total_liabilities.
C1_BalanceIdentity ==
    (op = "balance_sheet") =>
        /\ res.total_equity = res.total_assets - res.total_liabilities
        /\ res.total_assets = res.total_liabilities + res.total_equity

\* A balance sheet as of a date, in the account_type path, with assets and
\* liabilities both non-zero and different.
C1_Witness ==
    /\ op = "balance_sheet"
    /\ "account_type" \in pre.cols
    /\ args.end # NoDate
    /\ res.total_assets > 0
    /\ res.total_liabilities > 0
    /\ res.total_equity # 0

\* The sum of f over the finite set S.
RECURSIVE SumOver(_, _)
SumOver(S, f) ==
    IF S = {} THEN 0
    ELSE LET x == CHOOSE y \in S : TRUE IN f[x] + SumOver(S \ {x}, f)

\* The rows of pre (by position) inside the bounds of the call: all of them
\* when the table has no date column.
InBounds(i) ==
    \/ "date" \notin pre.cols
    \/ /\ args.start # NoDate => (pre.rows[i].date.k = "ts" /\ pre.rows[i].date.v >= args.start)
       /\ args.end # NoDate => (pre.rows[i].date.k = "ts" /\ pre.rows[i].date.v <= args.end)

\* The amount of row i of pre as a number, NaN counting for nothing.
AmountOf(i) ==
    IF pre.rows[i].amount.k = "num" THEN pre.rows[i].amount.v ELSE 0

\* The category row i of pre has once classified.
CategoryOf(i) == categorize_transactions(pre).out.rows[i].category

\* C2: whenever the income statement is an aggregate, for every choice of
\* bounds, net_income = total_income - total_expenses, total_income is the sum
\* of the amounts of the Income rows inside the bounds and total_expenses the
\* absolute value of the sum of the amounts of the Expense rows inside them.
C2_NetIncome ==
    (op = "income_statement" /\ res.kind = "ok") =>
        LET inside == {i \in 1..Len(pre.rows) : InBounds(i)}
            amount == [i \in 1..Len(pre.rows) |-> AmountOf(i)]
        IN  /\ res.net_income = res.total_income - res.total_expenses
            /\ res.total_income =
                   SumOver({i \in inside : CategoryOf(i) = "Income"}, amount)
            /\ res.total_expenses =
                   Abs(SumOver({i \in inside : CategoryOf(i) = "Expense"}, amount))

\* An income statement over [start, end] that leaves a row out and has
\* expenses.
C2_Witness ==
    /\ op = "income_statement"
    /\ res.kind = "ok"
    /\ args.start # NoDate
    /\ args.end # NoDate
    /\ \E i \in 1..Len(pre.rows) : ~InBounds(i)
    /\ res.total_expenses > 0
    /\ res.net_income < 0

\* The denominators of the five ratios, as the ratio calculator reads them.
Denominators ==
    LET is == calculate_income_statement(pre, NoDate, NoDate).out
        bs == calculate_balance_sheet(pre, NoDate, MaxDay + 1).out
    IN  [profit_margin      |-> Get(is, "total_income"),
         return_on_assets   |-> Get(bs, "total_assets"),
         return_on_equity   |-> Get(bs, "total_equity"),
         debt_to_equity     |-> Get(bs, "total_equity"),
         asset_to_liability |-> Get(bs, "total_liabilities")]

Numerators ==
    LET is == calculate_income_statement(pre, NoDate, NoDate).out
        bs == calculate_balance_sheet(pre, NoDate, MaxDay + 1).out
    IN  [profit_margin      |-> Get(is, "net_income"),
         return_on_assets   |-> Get(is, "net_income"),
         return_on_equity   |-> Get(is, "net_income"),
         debt_to_equity     |-> Get(bs, "total_liabilities"),
         asset_to_liability |-> Get(bs, "total_assets")]

RatioNames == {"profit_margin", "return_on_assets", "return_on_equity",
               "debt_to_equity", "asset_to_liability"}

\* C6 as stated: the ratio calculator never raises and never returns an
\* infinite value, and every ratio is 0 whenever its denominator is zero or
\* non-positive.
C6_AsStated ==
    (op = "ratios") =>
        /\ res.kind = "ok"
        /\ \A k \in RatioNames :
            /\ res[k].den # 0
            /\ Denominators[k] <= 0 => res[k].num = 0

\* C6 amended: the ratio calculator never raises and never returns an infinite
\* value; every ratio is 0 when its denominator is exactly 0 (profit_margin
\* is 0 when total_income is 0), and is numerator / denominator when the
\* denominator is non-zero, negative denominators included.
C6_ZeroDenominator ==
    (op = "ratios") =>
        /\ res.kind = "ok"
        /\ \A k \in RatioNames :
            /\ res[k].den # 0
            /\ Denominators[k] = 0 => res[k] = Zero
            /\ Denominators[k] # 0 => res[k] = Frac(Numerators[k], Denominators[k])

\* Ratios of a table with no income and negative equity: profit_margin is 0
\* by the zero rule, return_on_equity is a quotient by a negative number.
C6_Witness ==
    /\ op = "ratios"
    /\ res.kind = "ok"
    /\ Denominators["profit_margin"] = 0
    /\ res.profit_margin = Zero
    /\ Denominators["return_on_equity"] < 0
    /\ res.return_on_equity.num # 0

---------------------------------------------------------------------------
(* Upload as a state machine: the caller reads a table from a file,        *)
(* validates it and preprocesses it (data_import.py lines 19-30); the      *)
(* preprocessed table may be preprocessed again.                           *)

\* Cells of a freshly read table: dates are strings, parseable or not, or
\* missing; amounts are numbers, unparseable text, or missing.
RawDates   == {Str(d) : d \in Days} \cup {Bad, Null}
RawAmounts == {Num(3), Bad, Null}
RawDescriptions == {"Rent", NullTxt}

IngestCols ==
    {{"date", "amount", "description"},
     {"amount", "description"}, {"date", "description"}, {"date", "amount"}}

InitIngest ==
    /\ \E c \in IngestCols, n \in 0..MaxRows :
          \E s \in [1..n -> RowsOver(c, RawDates, RawAmounts, RawDescriptions,
                                     {}, {}, {}, {})] :
              df = [cols |-> c, rows |-> s]
    /\ pre = df
    /\ op = "init"
    /\ args = NoArgs
    /\ res = NoRes
    /\ session_state = initialize_session_state
    /\ gemini_api_available = FALSE

Validate ==
    /\ op = "init"
    /\ LET r == validate_transaction_data(df)
       IN  /\ df' = r.caller
           /\ res' = r.out
    /\ pre' = df
    /\ op' = "validate"
    /\ UNCHANGED <<session_state, gemini_api_available>>
    /\ UNCHANGED args

\* Called on any table, or on the validated one (data_import.py line 30).
Preprocess ==
    /\ \/ op = "init"
       \/ op = "validate" /\ res.ok
    /\ LET r == preprocess_transaction_data(df)
       IN  /\ df' = r.caller
           /\ res' \in r.outs
    /\ pre' = df
    /\ op' = "preprocess"
    /\ UNCHANGED <<session_state, gemini_api_available>>
    /\ UNCHANGED args

\* preprocess_transaction_data called on its own output.
PreprocessAgain ==
    /\ op = "preprocess"
    /\ res' \in preprocess_transaction_data(res).outs
    /\ pre' = res
    /\ op' = "preprocess_again"
    /\ UNCHANGED <<session_state, gemini_api_available>>
    /\ UNCHANGED <<df, args>>

NextIngest == Validate \/ Preprocess \/ PreprocessAgain

SpecIngest == InitIngest /\ [][NextIngest]_vars

---------------------------------------------------------------------------
(* Claims about validation and preprocessing *)

\* The five grounds for rejection, read off the table as it was passed.
MissingRequired(t) == \E c \in {"date", "amount", "description"} : c \notin t.cols
DateUnparseable(t) == \E i \in 1..Len(t.rows) : t.rows[i].date.k = "bad"
AmountUnparseable(t) == \E i \in 1..Len(t.rows) : t.rows[i].amount.k = "bad"
NoRows(t) == t.rows = << >>
NullInEssential(t) ==
    \E i \in 1..Len(t.rows) : t.rows[i].date.k = "null" \/ t.rows[i].amount.k = "null"

\* C7: validation returns (False, reason) for every table with a missing
\* required column, an unparseable date column, an unparseable amount column,
\* zero rows, or a null in date or amount, and (True, message) only when none
\* of these holds.
C7_FailsClosed ==
    (op = "validate") =>
        /\ res.ok <=> ~(\/ MissingRequired(pre)
                        \/ DateUnparseable(pre)
                        \/ AmountUnparseable(pre)
                        \/ NoRows(pre)
                        \/ NullInEssential(pre))
        /\ res.reason # ""

\* A table with all columns, rows, and every cell parseable is rejected for
\* a null in date or amount alone.
C7_Witness ==
    /\ op = "validate"
    /\ ~res.ok
    /\ ~MissingRequired(pre)
    /\ ~DateUnparseable(pre)
    /\ ~AmountUnparseable(pre)
    /\ ~NoRows(pre)
    /\ NullInEssential(pre)
    /\ res.reason = "missing values"

\* C8 as stated: a validation that returns True leaves the caller's table as
\* it was, values and types, in every column.
C8_AsStated ==
    (op = "validate" /\ res.ok) => df = pre

\* C9 as stated: preprocessing the output of preprocessing gives the very same
\* table: same rows, same row order, same derived columns.
C9_AsStated ==
    (op = "preprocess_again") => res = pre

\* The rows of a table as a bag: how often each row occurs.
RowCount(t, r) == Cardinality({i \in 1..Len(t.rows) : t.rows[i] = r})
SameRows(t1, t2) ==
    /\ t1.cols = t2.cols
    /\ Len(t1.rows) = Len(t2.rows)
    /\ \A i \in 1..Len(t1.rows) : RowCount(t1, t1.rows[i]) = RowCount(t2, t1.rows[i])

SharedDate(t) ==
    \E i, j \in 1..Len(t.rows) :
        i # j /\ t.rows[i].date.k = "ts" /\ t.rows[i].date = t.rows[j].date

\* C9 amended: preprocessing the output of preprocessing gives a table with
\* the same columns and the same rows (derived columns included), with the
\* same date at every position; the row order can differ only among rows that
\* share a date, so the two tables are equal when no two rows share a date.
C9_IdempotentUpToTies ==
    (op = "preprocess_again") =>
        /\ SameRows(res, pre)
        /\ \A i \in 1..Len(res.rows) : res.rows[i].date = pre.rows[i].date
        /\ ~SharedDate(pre) => res = pre

\* Two rows that share a date came back from the second preprocessing in the
\* other order, their derived columns intact.
C9_Witness ==
    /\ op = "preprocess_again"
    /\ res # pre
    /\ Len(pre.rows) = 2
    /\ pre.rows[1].date.k = "ts"
    /\ pre.rows[1].date = pre.rows[2].date
    /\ res.rows[1] = pre.rows[2]
    /\ res.rows[2] = pre.rows[1]
    /\ res.rows[1].month_year = YearMonth(pre.rows[1].date.v)

\* Dates ascend, NaT last.
Ascending(t) ==
    \A i, j \in 1..Len(t.rows) :
        (i < j /\ t.rows[j].date.k = "ts") =>
            (t.rows[i].date.k = "ts" /\ t.rows[i].date.v <= t.rows[j].date.v)

\* C10 as stated: after preprocessing every row has a non-null date and a
\* numeric amount, also when cells of the input could not be parsed; no row is
\* duplicated (as many rows as went in) and the dates ascend.
C10_AsStated ==
    (op = "preprocess" /\ {"date", "amount"} \subseteq pre.cols) =>
        /\ \A i \in 1..Len(res.rows) :
            /\ res.rows[i].date.k = "ts"
            /\ res.rows[i].amount.k = "num"
        /\ Len(res.rows) = Len(pre.rows)
        /\ Ascending(res)

---------------------------------------------------------------------------
(* Claims about the date range of the income statement *)

\* A row's date lies in [start, end]; a bound that is None does not restrict
\* its side, a date that is no date lies in no bounded range.
Within(r, start, end) ==
    \/ start = NoDate /\ end = NoDate
    \/ /\ r.date.k \in {"ts", "str"}
       /\ start # NoDate => start <= r.date.v
       /\ end # NoDate => r.date.v <= end

\* [s2, e2] is [s, e] or a narrower range.
Narrows(s2, e2, s, e) ==
    /\ s # NoDate => (s2 # NoDate /\ s2 >= s)
    /\ e # NoDate => (e2 # NoDate /\ e2 <= e)

\* C11: an income statement with bounds start and/or end is the statement of
\* exactly the rows with start <= date <= end, both ends inclusive, an absent
\* bound not restricting its side; filtering the kept rows by a narrower range
\* gives what the narrower range keeps of the whole table, so narrowing never
\* adds a row.
C11_InclusiveRange ==
    (op = "income_statement" /\ "date" \in pre.cols) =>
        LET inside == [cols |-> pre.cols,
                       rows |-> SelectSeq(pre.rows,
                                   LAMBDA r : Within(r, args.start, args.end))]
            whole  == calculate_income_statement(inside, NoDate, NoDate).out
            kept   == FilterByDates(pre, args.start, args.end)
        IN  /\ res.kind = whole.kind
            /\ res.kind = "ok" =>
                   res = [whole EXCEPT !.time_period =
                             [start_date |-> args.start, end_date |-> args.end]]
            /\ kept.rows = DateCoerced(inside).rows
            /\ \A s2, e2 \in Days \cup {NoDate} :
                   Narrows(s2, e2, args.start, args.end) =>
                       /\ FilterByDates(kept, s2, e2) = FilterByDates(pre, s2, e2)
                       /\ Len(FilterByDates(pre, s2, e2).rows) <= Len(kept.rows)

\* A statement over [2, 2] that counts a row dated on the bound itself and
\* leaves out a row dated off it.
C11_Witness ==
    /\ op = "income_statement"
    /\ res.kind = "ok"
    /\ args.start = 2
    /\ args.end = 2
    /\ \E i, j \in 1..Len(pre.rows) :
          /\ pre.rows[i].date = Ts(2)
          /\ pre.rows[i].amount = Num(3)
          /\ pre.rows[j].date.k = "ts"
          /\ pre.rows[j].date.v # 2
    /\ res.total_income = 3

---------------------------------------------------------------------------
(* Claims about the months of a year as a partition *)

\* The months of the first year of the calendar, and the first and last day
\* of each.
MonthsOfYear == 0..11
FirstDay(m) == m * DaysPerMonth + 1
LastDay(m)  == (m + 1) * DaysPerMonth

\* Every row of the table is dated, inside the first year.
DatedInOneYear(t) ==
    /\ "date" \in t.cols
    /\ \A i \in 1..Len(t.rows) :
          /\ t.rows[i].date.k \in {"ts", "str"}
          /\ MonthIndex(t.rows[i].date.v) \in MonthsOfYear

\* The income statement of month m of table t.
MonthStatement(t, m) == calculate_income_statement(t, FirstDay(m), LastDay(m)).out

\* The sum of the Expense amounts of month m, sign kept.
MonthExpenseSigned(t, m) ==
    SumAmount(WithCategory(
        FilterByDates(categorize_transactions(t).out, FirstDay(m), LastDay(m)).rows,
        "Expense"))

\* C12 as stated: for every table whose dates all fall in one year, with or
\* without a category column of its own, the monthly total_income values sum
\* to the unfiltered total_income and the monthly total_expenses values sum
\* to the unfiltered total_expenses.
C12_AsStated ==
    (/\ op = "income_statement"
     /\ args = NoArgs
     /\ res.kind = "ok"
     /\ DatedInOneYear(pre)) =>
        /\ SumOver(MonthsOfYear, [m \in MonthsOfYear |-> MonthStatement(pre, m).total_income])
              = res.total_income
        /\ SumOver(MonthsOfYear, [m \in MonthsOfYear |-> MonthStatement(pre, m).total_expenses])
              = res.total_expenses

\* C12 amended: for every table whose dates all fall in one year the monthly
\* total_income values sum to the unfiltered total_income; the monthly
\* total_expenses values sum to at least the unfiltered total_expenses, and
\* to exactly it if and only if no two months have Expense sums of opposite
\* sign (always so when the categories come from the sign of the amount).
C12_MonthsPartition ==
    (/\ op = "income_statement"
     /\ args = NoArgs
     /\ res.kind = "ok"
     /\ DatedInOneYear(pre)) =>
        LET monthly == SumOver(MonthsOfYear,
                          [m \in MonthsOfYear |-> MonthStatement(pre, m).total_expenses])
            opposite == /\ \E m \in MonthsOfYear : MonthExpenseSigned(pre, m) > 0
                        /\ \E m \in MonthsOfYear : MonthExpenseSigned(pre, m) < 0
        IN  /\ SumOver(MonthsOfYear,
                   [m \in MonthsOfYear |-> MonthStatement(pre, m).total_income])
                  = res.total_income
            /\ monthly >= res.total_expenses
            /\ (monthly = res.total_expenses) <=> ~opposite
            /\ "category" \notin pre.cols => ~opposite

\* An unfiltered statement of a table with its own category column whose
\* Expense rows are a charge in one month and a refund in another: the
\* months' expenses sum to more than the statement's.
C12_Witness ==
    /\ op = "income_statement"
    /\ args = NoArgs
    /\ res.kind = "ok"
    /\ DatedInOneYear(pre)
    /\ "category" \in pre.cols
    /\ MonthExpenseSigned(pre, 0) < 0
    /\ MonthExpenseSigned(pre, 1) > 0
    /\ res.total_expenses = 1
    /\ MonthStatement(pre, 0).total_expenses + MonthStatement(pre, 1).total_expenses = 5

---------------------------------------------------------------------------
(* calculate_cash_flow *)

operating_types == {"revenue", "expense", "sale", "purchase", "operating"}
investing_types == {"investment", "asset purchase", "asset sale", "investing"}
financing_types == {"loan", "dividend", "equity", "financing"}

\* Line 211 (216, 221): the sum of the amounts of the rows whose lowercased
\* transaction_type is one of types.
FlowOf(rows, types) ==
    SumAmount(SelectSeq(rows, LAMBDA r : Lower(r.transaction_type) \in types))

\* The fallback with the expenses left out.
OperatingFallback_gross(rows) == IncomeTotal(rows)

\* Lines 228-230: income - expenses of the categorized rows.
OperatingFallback(rows) == IncomeTotal(rows) - ExpenseTotal(rows)

\* Lines 201-230: the three flows of the date-filtered table.  The amount
\* column is numeric (with NaN) in the transaction_type path, which does not
\* coerce it; the text columns hold strings or NaN.
Flows(data) ==
    IF "transaction_type" \in data.cols /\ "amount" \in data.cols
    THEN [operating |-> FlowOf(data.rows, operating_types),
          investing |-> FlowOf(data.rows, investing_types),
          financing |-> FlowOf(data.rows, financing_types)]
    ELSE LET categorized_data == categorize_transactions(data).out
         IN  [operating |->
                  IF "category" \in categorized_data.cols
                     /\ "amount" \in categorized_data.cols
                  THEN OperatingFallback(categorized_data.rows)
                  ELSE 0,
              investing |-> 0,
              financing |-> 0]

\* The dict of lines 235-244 for the three flows.
CashFlowResult(f, start, end) ==
    [kind |-> "ok",
     operating_cash_flow |-> f.operating,
     investing_cash_flow |-> f.investing,
     financing_cash_flow |-> f.financing,
     net_cash_flow |-> f.operating + f.investing + f.financing,
     time_period |-> [start_date |-> start, end_date |-> end]]

\* calculate_cash_flow(df, start_date, end_date): filters a copy by date
\* (lines 187-199), then sums the flows.
calculate_cash_flow(t, start, end) ==
    [caller |-> t,
     out |-> CashFlowResult(Flows(FilterByDates(t, start, end)), start, end)]

---------------------------------------------------------------------------
(* The cash flow calculator as a state machine *)

TransactionTypes == {"Sale", "LOAN", "investment", "Gift"}

CashFlowCols ==
    {{"date", "amount", "description"},
     {"date", "amount", "description", "transaction_type"},
     {"date", "amount", "description", "category"},
     {"date", "amount"},
     {"amount", "description"},
     {"date", "description", "transaction_type"}}

CashFlowRows(c) ==
    IF c \cap {"category", "transaction_type"} = {}
    THEN RowsOver(c, CleanDates \cup {Null}, CleanAmounts \cup {Null},
                  {"Rent"}, {}, {}, {}, {})
    ELSE RowsOver(c, CleanDates, CleanAmounts, {"Rent"},
                  {"Income", "Expense"}, {}, {}, TransactionTypes)

InitCashFlow ==
    /\ \E c \in CashFlowCols, n \in 0..MaxRows :
          \E s \in [1..n -> CashFlowRows(c)] :
              df = [cols |-> c, rows |-> s]
    /\ pre = df
    /\ op = "init"
    /\ args = NoArgs
    /\ res = NoRes
    /\ session_state = initialize_session_state
    /\ gemini_api_available = FALSE

CashFlow ==
    \E start \in BoundChoices, end \in BoundChoices :
        /\ op = "init"
        /\ LET r == calculate_cash_flow(df, start, end)
           IN  /\ df' = r.caller
               /\ res' = r.out
               /\ pre' = df
               /\ op' = "cash_flow"
               /\ UNCHANGED <<session_state, gemini_api_available>>
               /\ args' = [start |-> start, end |-> end]

NextCashFlow == CashFlow

SpecCashFlow == InitCashFlow /\ [][NextCashFlow]_vars

---------------------------------------------------------------------------
(* Claims about the cash flow *)

\* C13: every cash flow statement has net_cash_flow = operating_cash_flow +
\* investing_cash_flow + financing_cash_flow; for a table without
\* transaction_type, investing and financing are 0 and operating_cash_flow is
\* the sum of the rows classified Income inside the bounds minus the absolute
\* sum of the rows classified Expense inside them.
C13_NetCashFlow ==
    (op = "cash_flow") =>
        LET inside == {i \in 1..Len(pre.rows) : InBounds(i)}
            amount == [i \in 1..Len(pre.rows) |-> AmountOf(i)]
        IN  /\ res.kind = "ok"
            /\ res.net_cash_flow = res.operating_cash_flow
                   + res.investing_cash_flow + res.financing_cash_flow
            /\ "transaction_type" \notin pre.cols =>
                   /\ res.investing_cash_flow = 0
                   /\ res.financing_cash_flow = 0
                   /\ res.operating_cash_flow =
                          SumOver({i \in inside : CategoryOf(i) = "Income"}, amount)
                          - Abs(SumOver({i \in inside : CategoryOf(i) = "Expense"}, amount))

\* A cash flow over [2, 2] of a table without transaction_type that has an
\* income and an expense inside the bounds.
C13_Witness ==
    /\ op = "cash_flow"
    /\ "transaction_type" \notin pre.cols
    /\ args.start = 2
    /\ args.end = 2
    /\ Len(pre.rows) = 2
    /\ pre.rows[1].amount = Num(3)
    /\ pre.rows[2].amount = Num(-2)
    /\ res.operating_cash_flow = 1
    /\ res.net_cash_flow = 1

---------------------------------------------------------------------------
(* Claims about the balance sheet without account_type *)

\* C14: without an account_type column the balance sheet over the rows with
\* date <= as_of (all rows when as_of is absent) has total_assets = the sum of
\* the positive amounts and total_liabilities = the absolute value of the sum
\* of the negative amounts; the single row of amount 1000 gives assets 1000,
\* liabilities 0, equity 1000.
C14_SignBasedBalance ==
    (op = "balance_sheet" /\ "account_type" \notin pre.cols) =>
        LET inside == {i \in 1..Len(pre.rows) : InBounds(i)}
            amount == [i \in 1..Len(pre.rows) |-> AmountOf(i)]
        IN  /\ res.total_assets = SumOver({i \in inside : amount[i] > 0}, amount)
            /\ res.total_liabilities =
                   Abs(SumOver({i \in inside : amount[i] < 0}, amount))
            /\ pre = SingleRow1000 =>
                   /\ res.total_assets = 1000
                   /\ res.total_liabilities = 0
                   /\ res.total_equity = 1000

\* The balance sheet of the single row of amount 1000 was computed.
C14_Witness ==
    /\ op = "balance_sheet"
    /\ pre = SingleRow1000
    /\ res.total_assets = 1000
    /\ res.total_equity = 1000

---------------------------------------------------------------------------
(* summarize_financial_data *)

\* float('inf') and float('nan').
Inf == [inf |-> TRUE]
NaN == [nan |-> TRUE]

\* Lines 296-297: the least and the greatest date, None when there is none.
MinDate(rows) ==
    LET ds == {rows[i].date.v : i \in {j \in 1..Len(rows) : rows[j].date.k = "ts"}}
    IN  IF ds = {} THEN NoDate ELSE CHOOSE d \in ds : \A e \in ds : d <= e
MaxDate(rows) ==
    LET ds == {rows[i].date.v : i \in {j \in 1..Len(rows) : rows[j].date.k = "ts"}}
    IN  IF ds = {} THEN NoDate ELSE CHOOSE d \in ds : \A e \in ds : d >= e

\* Line 310: df['amount'].mean() skips NaN, and is NaN over nothing.
MeanAmount(t) ==
    IF "amount" \in t.cols
    THEN LET nums == SelectSeq(t.rows, LAMBDA r : r.amount.k = "num")
         IN  IF Len(nums) = 0 THEN NaN ELSE Frac(SumAmount(nums), Len(nums))
    ELSE Zero

\* for key, group in rows.groupby(col): the sum of amount per key, NaN keys
\* dropped.
GroupSums(rows, col) ==
    [k \in {rows[i][col] : i \in 1..Len(rows)} \ {NullTxt} |->
        SumAmount(SelectSeq(rows, LAMBDA r : r[col] = k))]

AbsOfEach(f) == [k \in DOMAIN f |-> Abs(f[k])]

\* The totals with nothing in place of the general bucket.
CategoryTotals_nogeneral(cols, rows, general) ==
    IF "subcategory" \in cols THEN GroupSums(rows, "subcategory")
    ELSE IF "description" \in cols THEN GroupSums(rows, "description")
    ELSE << >>

\* Lines 323-333 (336-346 for the expenses): totals by subcategory, else
\* by description, else under one general name.
CategoryTotals(cols, rows, general) ==
    IF "subcategory" \in cols THEN GroupSums(rows, "subcategory")
    ELSE IF "description" \in cols THEN GroupSums(rows, "description")
    ELSE general :> SumAmount(rows)

\* Lines 364-371 (374-381): the same for the rows of one month, with no
\* general bucket.
MonthCategoryTotals(cols, rows) ==
    IF "subcategory" \in cols THEN GroupSums(rows, "subcategory")
    ELSE IF "description" \in cols THEN GroupSums(rows, "description")
    ELSE << >>

\* The months that have a group in groupby('month'): rows whose date is NaT
\* have a NaN label and fall in no group.
MonthsIn(rows) ==
    {MonthIndex(rows[i].date.v) : i \in {j \in 1..Len(rows) : rows[j].date.k = "ts"}}

\* Line 351: the label strftime('%Y-%m') gives the dates of month m.
PeriodLabel(m) == YearMonth(FirstDay(m))

\* The order of two labels as strings: the labels have a fixed width, so the
\* year digits decide and then the month digits.
LabelLess(m1, m2) ==
    \/ YearOf(FirstDay(m1)) < YearOf(FirstDay(m2))
    \/ /\ YearOf(FirstDay(m1)) = YearOf(FirstDay(m2))
       /\ MonthOf(FirstDay(m1)) < MonthOf(FirstDay(m2))

\* Line 394: time_periods.sort(key=lambda x: x['period'])
RECURSIVE SortByLabel(_)
SortByLabel(S) ==
    IF S = {} THEN << >>
    ELSE LET m == CHOOSE x \in S : \A y \in S \ {x} : LabelLess(x, y)
         IN  <<m>> \o SortByLabel(S \ {m})

\* Lines 357-391: the bucket of month m of the categorized table.
Bucket(categorized_df, m) ==
    LET month_df == SelectSeq(categorized_df.rows,
                        LAMBDA r : r.date.k = "ts" /\ MonthIndex(r.date.v) = m)
        month_income  == IncomeTotal(month_df)
        month_expense == ExpenseTotal(month_df)
    IN  [period |-> PeriodLabel(m),
         income |-> month_income,
         expense |-> month_expense,
         net |-> month_income - month_expense,
         income_categories |->
             MonthCategoryTotals(categorized_df.cols, WithCategory(month_df, "Income")),
         expense_categories |->
             AbsOfEach(MonthCategoryTotals(categorized_df.cols,
                                           WithCategory(month_df, "Expense")))]

\* The change in percent with the factor 100 left out.
PctChange_ratio(change, previous) ==
    IF previous > 0 THEN Frac(change, previous)
    ELSE IF change = 0 THEN Zero ELSE Inf

\* Lines 405-408 (412-415): the change in percent of the previous value,
\* 0 or infinity when that is not positive.
PctChange(change, previous) ==
    IF previous > 0 THEN Frac(change * 100, previous)
    ELSE IF change = 0 THEN Zero ELSE Inf

\* Lines 419-422: for net the base is abs(previous net).
NetPctChange(change, previous) ==
    IF previous # 0 THEN Frac(change * 100, Abs(previous))
    ELSE IF change = 0 THEN Zero ELSE Inf

\* The bucket to compare with, taken to be the first one.
Predecessor_first(periods, i) == periods[1]

\* Line 401: previous = time_periods[i-1]
Predecessor(periods, i) == periods[i - 1]

\* Lines 403-422: bucket current with its six trend fields.
WithTrend(current, previous) ==
    LET income_change  == current.income - previous.income
        expense_change == current.expense - previous.expense
        net_change     == current.net - previous.net
    IN  current @@
        [income_change |-> income_change,
         income_change_pct |-> PctChange(income_change, previous.income),
         expense_change |-> expense_change,
         expense_change_pct |-> PctChange(expense_change, previous.expense),
         net_change |-> net_change,
         net_change_pct |-> NetPctChange(net_change, previous.net)]

\* Lines 349-422: one bucket per month group, sorted by label, every bucket
\* but the first with its trend.
TimePeriods(categorized_df) ==
    IF "date" \in categorized_df.cols
    THEN LET order   == SortByLabel(MonthsIn(categorized_df.rows))
             periods == [i \in 1..Len(order) |-> Bucket(categorized_df, order[i])]
         IN  [i \in 1..Len(periods) |->
                 IF i = 1 THEN periods[i]
                 ELSE WithTrend(periods[i], Predecessor(periods, i))]
    ELSE << >>

\* The label with a change of 0 counted as a rise.
TrendLabel_nonstrict(change, up, down) ==
    IF change >= 0 THEN up ELSE down

\* Lines 472-474: 'increasing' / 'decreasing' / 'stable' by the sign of a
\* change.
TrendLabel(change, up, down) ==
    IF change > 0 THEN up ELSE IF change < 0 THEN down ELSE "stable"

\* Lines 447-475: the overall trend from the first to the last bucket.
Trends(time_periods) ==
    LET first_period == time_periods[1]
        last_period  == time_periods[Len(time_periods)]
        income_change  == last_period.income - first_period.income
        expense_change == last_period.expense - first_period.expense
        net_change     == last_period.net - first_period.net
    IN  [period_count |-> Len(time_periods),
         start_period |-> first_period.period,
         end_period |-> last_period.period,
         income_change |-> income_change,
         income_change_pct |->
             IF first_period.income > 0
             THEN Frac(income_change * 100, first_period.income) ELSE Zero,
         expense_change |-> expense_change,
         expense_change_pct |->
             IF first_period.expense > 0
             THEN Frac(expense_change * 100, first_period.expense) ELSE Zero,
         net_change |-> net_change,
         net_change_pct |->
             IF first_period.net # 0
             THEN Frac(net_change * 100, Abs(first_period.net)) ELSE Zero,
         income_trend |-> TrendLabel(income_change, "increasing", "decreasing"),
         expense_trend |-> TrendLabel(expense_change, "increasing", "decreasing"),
         net_trend |-> TrendLabel(net_change, "improving", "worsening")]

\* The column the monthly loop subscripts without having it: lines 359-360
\* read month_df['category'] and [...]['amount'] for every month group,
\* whether or not the categorized table has these columns.
MissingKey(categorized_df) ==
    IF "date" \notin categorized_df.cols \/ MonthsIn(categorized_df.rows) = {}
    THEN "none"
    ELSE IF "category" \notin categorized_df.cols THEN "category"
    ELSE IF "amount" \notin categorized_df.cols THEN "amount"
    ELSE "none"

\* Lines 321-346: the two category maps, empty without category or amount.
CategoryMaps(categorized_df) ==
    IF "category" \in categorized_df.cols /\ "amount" \in categorized_df.cols
    THEN [income |-> CategoryTotals(categorized_df.cols,
                         WithCategory(categorized_df.rows, "Income"), "General Income"),
          expense |-> AbsOfEach(CategoryTotals(categorized_df.cols,
                         WithCategory(categorized_df.rows, "Expense"), "General Expenses"))]
    ELSE [income |-> << >>, expense |-> << >>]

\* The get that answers a missing 'assets' / 'liabilities' with the total
\* of that name.
DictGet_totals(d, key, default) ==
    IF key \in DOMAIN d THEN d[key]
    ELSE IF ("total_" \o key) \in DOMAIN d THEN key :> d["total_" \o key]
    ELSE default

\* d.get(key, default)
DictGet(d, key, default) ==
    IF key \in DOMAIN d THEN d[key] ELSE default

\* Lines 425-477: the summary dict, with trends when there are two buckets
\* or more.
Summary(d, maps, time_periods, income_statement, balance_sheet, cash_flow, ratios) ==
    LET summary ==
          [kind |-> "ok",
           data_overview |->
               [transaction_count |-> Len(d.rows),
                date_range |-> [start |-> MinDate(d.rows), end |-> MaxDate(d.rows)],
                average_transaction |-> MeanAmount(d)],
           income_total |-> Get(income_statement, "total_income"),
           expense_total |-> Get(income_statement, "total_expenses"),
           net_income |-> Get(income_statement, "net_income"),
           income_categories |-> maps.income,
           expense_categories |-> maps.expense,
           assets |-> DictGet(balance_sheet, "assets", << >>),
           liabilities |-> DictGet(balance_sheet, "liabilities", << >>),
           equity |-> Get(balance_sheet, "total_equity"),
           financial_ratios |-> ratios,
           time_periods |-> time_periods,
           income_statement |-> income_statement,
           balance_sheet |-> balance_sheet,
           cash_flow |-> cash_flow]
    IN  IF Len(time_periods) > 1
        THEN summary @@ [trends |-> Trends(time_periods)]
        ELSE summary

\* Lines 302-477 on the table d the coercion of line 295 left and its
\* categorized copy: a KeyError of the monthly loop ends the call.
SummaryOf(d, categorized_df, now) ==
    IF MissingKey(categorized_df) # "none"
    THEN [kind |-> "raise", error |-> "KeyError", key |-> MissingKey(categorized_df)]
    ELSE Summary(d, CategoryMaps(categorized_df), TimePeriods(categorized_df),
                 calculate_income_statement(d, NoDate, NoDate).out,
                 calculate_balance_sheet(d, NoDate, now).out,
                 calculate_cash_flow(d, NoDate, NoDate).out,
                 calculate_financial_ratios(d, now).out)

\* summarize_financial_data(df): line 295 assigns the coerced dates into the
\* caller's table; now is the day datetime.now() falls on.
summarize_financial_data(t, now) ==
    LET d == DateCoerced(t)
    IN  [caller |-> d, out |-> SummaryOf(d, categorize_transactions(d).out, now)]

---------------------------------------------------------------------------
(* The aggregator as a state machine: a caller holding a table asks for    *)
(* its summary.                                                            *)

SummaryCols ==
    {{"date", "amount", "description"},
     {"date", "amount", "description", "category"},
     {"date", "amount", "description", "subcategory"},
     {"date", "amount"},
     {"date", "description"},
     {"date", "description", "category"},
     {"date", "amount", "category"},
     {"amount", "description"}}

Subcategories == {"Wages", "Housing", NullTxt}

SummaryRows(c) ==
    IF c \cap {"category", "subcategory"} = {}
    THEN RowsOver(c, CleanDates \cup {Null}, CleanAmounts \cup {Null},
                  {"Rent"}, {}, {}, {}, {})
    ELSE RowsOver(c, CleanDates, CleanAmounts, {"Rent"},
                  Categories, Subcategories, {}, {})

\* The four rows of the example: two months, an income and an expense each.
ExampleRow(d, a, desc, cat) ==
    [EmptyRow EXCEPT !.date = Str(d), !.amount = Num(a),
                     !.description = desc, !.category = cat]
FourRows ==
    [cols |-> {"date", "amount", "description", "category"},
     rows |-> <<ExampleRow(FirstDay(0), 1000, "Salary", "Income"),
                ExampleRow(FirstDay(0) + 1, -250, "Rent", "Expense"),
                ExampleRow(FirstDay(1), 1500, "Sale", "Income"),
                ExampleRow(FirstDay(1) + 1, -340, "Utility", "Expense")>>]

\* Tables of three rows, one in each of the first three months, in any order
\* of the rows.
ThreeMonths(s) ==
    /\ \A i \in 1..3 : s[i].date.k = "ts" /\ s[i].date.v \in {FirstDay(0), FirstDay(1), FirstDay(2)}
    /\ \A i, j \in 1..3 : i # j => s[i].date # s[j].date

InitSummary ==
    /\ \/ \E c \in SummaryCols, n \in 0..MaxRows :
             \E s \in [1..n -> SummaryRows(c)] :
                 df = [cols |-> c, rows |-> s]
       \/ df = FourRows
       \/ \E s \in [1..3 -> RowsOver({"date", "amount", "description"},
                                     {Ts(FirstDay(0)), Ts(FirstDay(1)), Ts(FirstDay(2))},
                                     CleanAmounts, {"Rent"}, {}, {}, {}, {})] :
             /\ ThreeMonths(s)
             /\ df = [cols |-> {"date", "amount", "description"}, rows |-> s]
    /\ pre = df
    /\ op = "init"
    /\ args = NoArgs
    /\ res = NoRes
    /\ session_state = initialize_session_state
    /\ gemini_api_available = FALSE

Summarize ==
    \E now \in Clock :
        /\ op = "init"
        /\ LET r == summarize_financial_data(df, now)
           IN  /\ df' = r.caller
               /\ res' = r.out
               /\ pre' = df
               /\ op' = "summarize"
               /\ UNCHANGED <<session_state, gemini_api_available>>
               /\ args' = NoArgs

\* The income statement of the example, over the full range.
ExampleStatement ==
    /\ op = "init"
    /\ df = FourRows
    /\ LET r == calculate_income_statement(df, NoDate, NoDate)
       IN  /\ df' = r.caller
           /\ res' = r.out
           /\ pre' = df
           /\ op' = "income_statement"
           /\ UNCHANGED <<session_state, gemini_api_available>>
           /\ args' = NoArgs

NextSummary == Summarize \/ ExampleStatement

SpecSummary == InitSummary /\ [][NextSummary]_vars

---------------------------------------------------------------------------
(* Claims about the summary *)

\* A quotient equals the whole number n.
FracIs(f, n) == f.den # 0 /\ f.num = n * f.den

\* C15: the four-row example has an income statement with total_income 2500,
\* total_expenses 590, net_income 1910, and a summary with exactly two
\* buckets, 2023-01 {income 1000, expense 250, net 750} and 2023-02 {income
\* 1500, expense 340, net 1160}, the second with income_change 500 and
\* income_change_pct 50.
C15_Example ==
    /\ (op = "income_statement" /\ pre = FourRows) =>
          /\ res.kind = "ok"
          /\ res.total_income = 2500
          /\ res.total_expenses = 590
          /\ res.net_income = 1910
    /\ (op = "summarize" /\ pre = FourRows) =>
          /\ res.kind = "ok"
          /\ Len(res.time_periods) = 2
          /\ res.time_periods[1].period = "2023-01"
          /\ res.time_periods[1].income = 1000
          /\ res.time_periods[1].expense = 250
          /\ res.time_periods[1].net = 750
          /\ res.time_periods[2].period = "2023-02"
          /\ res.time_periods[2].income = 1500
          /\ res.time_periods[2].expense = 340
          /\ res.time_periods[2].net = 1160
          /\ res.time_periods[2].income_change = 500
          /\ FracIs(res.time_periods[2].income_change_pct, 50)

\* The summary of the example was computed, with its two buckets.
C15_Witness ==
    /\ op = "summarize"
    /\ pre = FourRows
    /\ res.kind = "ok"
    /\ Len(res.time_periods) = 2
    /\ res.income_total = 2500
    /\ res.time_periods[2].income_change = 500

---------------------------------------------------------------------------
(* The three calculators on tables that lack a column *)

NextCalculators == IncomeStatement \/ BalanceSheet \/ CashFlow

SpecCalculators == InitCashFlow /\ [][NextCalculators]_vars

\* The table lacks amount, or has no category once classified.
Lacks(t) ==
    \/ "amount" \notin t.cols
    \/ "category" \notin categorize_transactions(t).out.cols

\* C16 as stated: each of calculate_income_statement, calculate_balance_sheet
\* and calculate_cash_flow, given a table that lacks amount or lacks category
\* after classification, returns the error marker in place of its aggregate.
C16_AsStated ==
    (op \in {"income_statement", "balance_sheet", "cash_flow"} /\ Lacks(pre)) =>
        res.kind = "error"

\* C16 amended: none of the three calculators raises on a table that lacks
\* amount or lacks category after classification.  calculate_income_statement
\* returns the error marker, for exactly these tables.  calculate_balance_sheet
\* returns an aggregate with no marker: all zeros without amount, the usual
\* totals without category.  calculate_cash_flow returns an aggregate with no
\* marker: all zeros unless the table has both transaction_type and amount.
C16_MarkerOnlyFromIncomeStatement ==
    /\ (op = "income_statement") => (res.kind = "error" <=> Lacks(pre))
    /\ (op = "balance_sheet" /\ Lacks(pre)) =>
          /\ res.kind = "ok"
          /\ "amount" \notin pre.cols =>
                /\ res.total_assets = 0
                /\ res.total_liabilities = 0
                /\ res.total_equity = 0
          /\ ("amount" \in pre.cols /\ "account_type" \notin pre.cols) =>
                LET inside == {i \in 1..Len(pre.rows) : InBounds(i)}
                    amount == [i \in 1..Len(pre.rows) |-> AmountOf(i)]
                IN  /\ res.total_assets = SumOver({i \in inside : amount[i] > 0}, amount)
                    /\ res.total_equity = SumOver(inside, amount)
    /\ (op = "cash_flow" /\ Lacks(pre)) =>
          /\ res.kind = "ok"
          /\ ("amount" \notin pre.cols \/ "transaction_type" \notin pre.cols) =>
                /\ res.operating_cash_flow = 0
                /\ res.investing_cash_flow = 0
                /\ res.financing_cash_flow = 0
                /\ res.net_cash_flow = 0

\* A balance sheet of a table with rows but no amount column: zeros, and no
\* marker.
C16_Witness ==
    /\ op = "balance_sheet"
    /\ "amount" \notin pre.cols
    /\ Len(pre.rows) = MaxRows
    /\ res.kind = "ok"
    /\ res.total_assets = 0
    /\ res.total_equity = 0

\* C17 as stated: summarize_financial_data returns a summary, and does not
\* raise, for every table with a date column that lacks amount or that has no
\* category column after classification.
C17_AsStated ==
    (op = "summarize" /\ "date" \in pre.cols /\ Lacks(pre)) => res.kind = "ok"

---------------------------------------------------------------------------
(* Calling twice: a caller calls one of the five functions and then calls  *)
(* it again, at the same or a later time, with an equal table and the same *)
(* date arguments.                                                         *)

RepeatCols == {{"date", "amount", "description"}, {"amount", "description"}}

InitRepeat ==
    /\ \E c \in RepeatCols, n \in 0..MaxRows :
          \E s \in [1..n -> RowsOver(c, {Str(d) : d \in Days} \cup {Null},
                                     CleanAmounts, {"Rent"}, {}, {}, {}, {})] :
              df = [cols |-> c, rows |-> s]
    /\ pre = df
    /\ op = "init"
    /\ args = NoArgs
    /\ res = NoRes
    /\ session_state = initialize_session_state
    /\ gemini_api_available = FALSE

FirstCalls == {"income_statement", "balance_sheet", "cash_flow", "ratios", "summarize"}

\* What function name returns for table t, arguments a, called on day now.
Returned(name, t, a, now) ==
    CASE name = "income_statement" -> calculate_income_statement(t, a.start, a.end).out
      [] name = "balance_sheet"    -> calculate_balance_sheet(t, a.end, now).out
      [] name = "cash_flow"        -> calculate_cash_flow(t, a.start, a.end).out
      [] name = "ratios"           -> calculate_financial_ratios(t, now).out
      [] name = "summarize"        -> summarize_financial_data(t, now).out

\* The second call: on the table the caller holds now or on one equal to the
\* table it passed first; res becomes the pair of the two results.
CallAgain ==
    \E now \in Clock, t \in {pre, df} :
        /\ op \in FirstCalls
        /\ res' = [kind |-> "twice", name |-> op, first |-> res,
                   second |-> Returned(op, t, args, now)]
        /\ op' = "again"
        /\ UNCHANGED <<session_state, gemini_api_available>>
        /\ UNCHANGED <<df, pre, args>>

NextRepeat ==
    IncomeStatement \/ BalanceSheet \/ CashFlow \/ Ratios \/ Summarize \/ CallAgain

SpecRepeat == InitRepeat /\ [][NextRepeat]_vars

\* A result with the date of the call blanked where line 171 puts it.
WithoutCallDate(r) ==
    IF "as_of_date" \in DOMAIN r THEN [r EXCEPT !.as_of_date = NoDate]
    ELSE IF "balance_sheet" \in DOMAIN r
    THEN [r EXCEPT !.balance_sheet.as_of_date = NoDate]
    ELSE r

\* C18 as stated: two calls of a calculator or of summarize_financial_data
\* with equal tables and equal date arguments, made at any two times, return
\* equal results in every field.
C18_AsStated ==
    (op = "again") => res.second = res.first

\* C18 amended: two calls with equal tables and equal date arguments return
\* results equal in every field except the as_of_date of a balance sheet
\* computed without as_of, which is the date of the call (also inside the
\* balance_sheet block of the summary); the income statement, the cash flow,
\* the ratios and a balance sheet with as_of given are equal in every field.
C18_DeterministicButForCallDate ==
    (op = "again") =>
        /\ WithoutCallDate(res.second) = WithoutCallDate(res.first)
        /\ res.name \in {"income_statement", "cash_flow", "ratios"} =>
               res.second = res.first
        /\ (res.name = "balance_sheet" /\ args.end # NoDate) =>
               res.second = res.first

\* Two balance sheets of one table without as_of, computed on different
\* days, differ in as_of_date and in nothing else.
C18_Witness ==
    /\ op = "again"
    /\ res.name = "balance_sheet"
    /\ args.end = NoDate
    /\ Len(pre.rows) > 0
    /\ res.first.as_of_date # res.second.as_of_date
    /\ res.first.total_assets = res.second.total_assets
    /\ res.first.total_equity = res.second.total_equity

---------------------------------------------------------------------------
(* Narrative generation: src/utils/gemini_utils.py with its rule-based     *)
(* fallbacks of src/utils/openai_utils.py.  The Gemini collaborator is the *)
(* environment: the API key is set or not, and a call of the model raises  *)
(* or answers with a text.                                                 *)

NoSummary == [kind |-> "none"]
ChatSummaries ==
    {NoSummary,
     [kind |-> "ok", income_total |-> 2500, expense_total |-> 590],
     [kind |-> "ok", income_total |-> 0, expense_total |-> 0]}

\* 'if not transaction_summary'
Truthy(summary) == summary # NoSummary

Prompts ==
    {"What is my income?", "Show my COSTS", "Net profit?", "hello",
     "What are my assets?", "What's my financial health?",
     "How much have I spent on rent?"}

\* openai_utils.py lines 43-229 on prompt.lower(): the first keyword list
\* with a word in the prompt decides the answer.
TopicOf(prompt) ==
    CASE prompt = "What is my income?"             -> "income"
      [] prompt = "Show my COSTS"                  -> "expense"
      [] prompt = "Net profit?"                    -> "profit"
      [] prompt = "What are my assets?"            -> "balance sheet"
      [] prompt = "What's my financial health?"    -> "financial health"
      [] prompt = "How much have I spent on rent?" -> "category"
      [] OTHER                                     -> "general"

\* Lines 133-136: match.group(3), the word after 'spent on'.
CategoryKeyword(prompt) ==
    IF prompt = "How much have I spent on rent?" THEN "rent" ELSE ""

\* A column of numbers only is read from the file as int64, and its values
\* key the category maps as numbers, written here as their numerals.
NumericKeys == {"1001"}
IsText(k) == k \notin NumericKeys

\* Lines 140 and 147: category_keyword in category.lower(), for the keys of
\* the model.
KeyHas(k, keyword) == keyword = "rent" /\ k = "Rent"

\* sum(mapping.values())
SumValues(f) == SumOver(DOMAIN f, f)

\* Lines 156 and 178-186: debt_to_equity is liabilities / (assets -
\* liabilities) when that difference is positive, else infinity; below 1 it
\* reads Strong, below 2 Moderate, otherwise Weak, and N/A when infinite.
Solvency(total_assets, total_liabilities) ==
    LET equity == total_assets - total_liabilities
    IN  IF equity > 0
        THEN IF total_liabilities < equity THEN "Strong"
             ELSE IF total_liabilities < 2 * equity THEN "Moderate"
             ELSE "Weak"
        ELSE "N/A"

\* Lines 91-115: the balance sheet answer, from the assets and liabilities
\* mappings of the summary.
BalanceAnswer(assets, liabilities) ==
    [total_assets |-> SumValues(assets),
     total_liabilities |-> SumValues(liabilities),
     equity |-> SumValues(assets) - SumValues(liabilities)]

\* Lines 131-150: the answer to a question about one category: the first
\* income key holding the word, else the first such expense key; lower() of
\* a key that is a number raises AttributeError.
CategoryAnswer(keyword, income_categories, expense_categories) ==
    IF \E k \in DOMAIN income_categories : ~IsText(k)
    THEN [kind |-> "raise", error |-> "AttributeError"]
    ELSE IF \E k \in DOMAIN income_categories : KeyHas(k, keyword)
    THEN LET k == CHOOSE c \in DOMAIN income_categories : KeyHas(c, keyword)
         IN  [kind |-> "text", by |-> "financial_chat", topic |-> "category",
              category |-> k, earned |-> income_categories[k]]
    ELSE IF \E k \in DOMAIN expense_categories : ~IsText(k)
    THEN [kind |-> "raise", error |-> "AttributeError"]
    ELSE IF \E k \in DOMAIN expense_categories : KeyHas(k, keyword)
    THEN LET k == CHOOSE c \in DOMAIN expense_categories : KeyHas(c, keyword)
         IN  [kind |-> "text", by |-> "financial_chat", topic |-> "category",
              category |-> k, spent |-> expense_categories[k]]
    ELSE [kind |-> "text", by |-> "financial_chat", topic |-> "category not found"]

\* openai_utils.financial_chat(prompt, transaction_summary, chat_history):
\* a text determined by the prompt and the summary; the history is not read.
financial_chat(prompt, summary, history) ==
    IF ~Truthy(summary)
    THEN [kind |-> "text", by |-> "financial_chat", topic |-> "need data"]
    ELSE LET topic       == TopicOf(prompt)
             assets      == DictGet(summary, "assets", << >>)
             liabilities == DictGet(summary, "liabilities", << >>)
             answer ==
                 [kind |-> "text", by |-> "financial_chat", topic |-> topic,
                  income_total |-> summary.income_total,
                  expense_total |-> summary.expense_total,
                  net_income |-> summary.income_total - summary.expense_total]
         IN  IF topic = "balance sheet"
             THEN answer @@ BalanceAnswer(assets, liabilities)
             ELSE IF topic = "financial health"
             THEN answer @@ [solvency |->
                     Solvency(SumValues(assets), SumValues(liabilities))]
             ELSE IF topic = "category"
             THEN CategoryAnswer(CategoryKeyword(prompt),
                      DictGet(summary, "income_categories", << >>),
                      DictGet(summary, "expense_categories", << >>))
             ELSE answer

report_types == {"income_statement", "balance_sheet", "cash_flow", "financial_summary"}

\* openai_utils.generate_report_content(report_type, data_summary): an error
\* dict for an unknown type and for any exception inside (None has no get;
\* line 351 divides by a total income of 0), else the report of the type.
generate_report_content(report_type, summary) ==
    IF report_type \notin report_types
    THEN [kind |-> "error", error |-> "Invalid report type"]
    ELSE IF summary = NoSummary
    THEN [kind |-> "error", error |-> "Failed to generate report content"]
    ELSE IF report_type = "income_statement" /\ summary.income_total = 0
    THEN [kind |-> "error", error |-> "Failed to generate report content"]
    ELSE [kind |-> "report", by |-> "generate_report_content",
          title |-> report_type,
          income_total |-> summary.income_total,
          expense_total |-> summary.expense_total]

\* What model.generate_content does: raise, or answer with a text that is
\* JSON, JSON in a fenced block, or no JSON at all (with or without the word
\* 'error' in it).
ApiOutcomes == {"exception", "json", "fenced json", "prose", "prose with error"}

\* The except branch letting the exception through.
Fallback_propagate(rule_based) == [kind |-> "raise", error |-> "Exception"]

\* gemini_utils.py lines 111-119 and 424-427: except Exception -> return the
\* rule-based result.
Fallback(rule_based) == rule_based

\* gemini_utils.financial_chat_with_gemini; key: GEMINI_API_KEY is set
\* (init_gemini raises ValueError without it), api: what the model call does.
financial_chat_with_gemini(prompt, summary, history, key, api) ==
    IF ~key THEN Fallback(financial_chat(prompt, summary, history))
    ELSE IF ~Truthy(summary)
    THEN [kind |-> "text", by |-> "financial_chat_with_gemini", topic |-> "need data"]
    ELSE IF api = "exception" THEN Fallback(financial_chat(prompt, summary, history))
    ELSE [kind |-> "text", by |-> "gemini", text |-> api]

\* gemini_utils.generate_report_content_with_gemini: _format_financial_data
\* raises on None; an answer that is not JSON is wrapped (lines 415-422).
generate_report_content_with_gemini(report_type, summary, key, api) ==
    IF ~key THEN Fallback(generate_report_content(report_type, summary))
    ELSE IF summary = NoSummary
    THEN Fallback(generate_report_content(report_type, summary))
    ELSE IF api = "exception"
    THEN Fallback(generate_report_content(report_type, summary))
    ELSE IF api \in {"json", "fenced json"}
    THEN [kind |-> "report", by |-> "gemini", text |-> api]
    ELSE [kind |-> "report", by |-> "gemini", title |-> report_type,
          summary |-> "Financial report generated with Gemini AI"]

---------------------------------------------------------------------------
(* The narrative surface as a state machine *)

Histories == {<< >>, <<"earlier question">>}
ReportRequests == report_types \cup {"other"}

InitNarrative ==
    /\ df = [cols |-> {}, rows |-> << >>]
    /\ pre = df
    /\ op = "init"
    /\ args = NoArgs
    /\ res = NoRes
    /\ session_state = initialize_session_state
    /\ gemini_api_available = FALSE

Chat ==
    \E prompt \in Prompts, summary \in ChatSummaries, history \in Histories,
       key \in BOOLEAN, api \in ApiOutcomes :
        /\ op = "init"
        /\ res' = financial_chat_with_gemini(prompt, summary, history, key, api)
        /\ args' = [prompt |-> prompt, summary |-> summary, history |-> history,
                    key |-> key, api |-> api]
        /\ op' = "chat"
        /\ UNCHANGED <<session_state, gemini_api_available>>
        /\ UNCHANGED <<df, pre>>

Report ==
    \E report_type \in ReportRequests, summary \in ChatSummaries,
       key \in BOOLEAN, api \in ApiOutcomes :
        /\ op = "init"
        /\ res' = generate_report_content_with_gemini(report_type, summary, key, api)
        /\ args' = [report_type |-> report_type, summary |-> summary,
                    key |-> key, api |-> api]
        /\ op' = "report"
        /\ UNCHANGED <<session_state, gemini_api_available>>
        /\ UNCHANGED <<df, pre>>

NextNarrative == Chat \/ Report

SpecNarrative == InitNarrative /\ [][NextNarrative]_vars

\* The collaborator failed during the call: no key, or the model call was
\* made and raised.
ChatFailed == ~args.key \/ (args.api = "exception" /\ Truthy(args.summary))
ReportFailed == ~args.key \/ args.api = "exception"

---------------------------------------------------------------------------
(* Claims about the monthly buckets *)

\* The calendar months in which the table has a dated row.
CalendarMonths(t) ==
    IF "date" \in t.cols
    THEN {MonthIndex(t.rows[i].date.v) :
             i \in {j \in 1..Len(t.rows) : t.rows[j].date.k \in {"ts", "str"}}}
    ELSE {}

ChangeFields ==
    {"income_change", "income_change_pct", "expense_change",
     "expense_change_pct", "net_change", "net_change_pct"}

\* C20: a summary has in time_periods exactly one bucket per distinct calendar
\* month of the table, in strictly ascending YYYY-MM order; the first bucket
\* has no *_change field, and every later bucket i has income_change,
\* expense_change and net_change equal to its own value minus that of bucket
\* i - 1.
C20_MonthlyBuckets ==
    (op = "summarize" /\ res.kind = "ok") =>
        LET tp     == res.time_periods
            months == CalendarMonths(pre)
            month(i) == CHOOSE m \in months : PeriodLabel(m) = tp[i].period
        IN  /\ Len(tp) = Cardinality(months)
            /\ \A m \in months : \E i \in 1..Len(tp) : tp[i].period = PeriodLabel(m)
            /\ \A i \in 1..Len(tp) : \E m \in months : tp[i].period = PeriodLabel(m)
            /\ \A i, j \in 1..Len(tp) : i < j => month(i) < month(j)
            /\ Len(tp) > 0 => DOMAIN tp[1] \cap ChangeFields = {}
            /\ \A i \in 2..Len(tp) :
                  /\ ChangeFields \subseteq DOMAIN tp[i]
                  /\ tp[i].income_change = tp[i].income - tp[i - 1].income
                  /\ tp[i].expense_change = tp[i].expense - tp[i - 1].expense
                  /\ tp[i].net_change = tp[i].net - tp[i - 1].net

\* A summary of a table whose rows are not in date order, with three buckets,
\* the third of which changed against the second otherwise than against the
\* first.
C20_Witness ==
    /\ op = "summarize"
    /\ res.kind = "ok"
    /\ Len(res.time_periods) = 3
    /\ pre.rows[1].date.v > pre.rows[2].date.v
    /\ res.time_periods[1].period = "2023-01"
    /\ res.time_periods[3].period = "2023-03"
    /\ res.time_periods[3].income_change = 3
    /\ res.time_periods[3].income - res.time_periods[1].income = 0


---------------------------------------------------------------------------
(* Claims about the percentage changes *)

\* Two floats are the same number, infinity being equal to itself only.
SameFloat(x, y) ==
    IF "inf" \in DOMAIN x \/ "inf" \in DOMAIN y THEN x = y
    ELSE x.num * y.den = y.num * x.den

\* The percentage of the policy: the change over the base when the previous
\* value is not 0, else 0 when the current value is 0 as well, else infinity.
StatedPct(current, previous, base) ==
    IF previous # 0 THEN Frac((current - previous) * 100, base)
    ELSE IF current = 0 THEN Zero ELSE Inf

\* C21 as stated: in every bucket after the first, income_change_pct and
\* expense_change_pct are (change / previous) * 100 when the previous value is
\* not 0, 0 when previous and current are both 0 and infinity when only the
\* previous is 0; net_change_pct is the same with abs(previous net) as base.
C21_AsStated ==
    (op = "summarize" /\ res.kind = "ok") =>
        LET tp == res.time_periods
        IN  \A i \in 2..Len(tp) :
              /\ SameFloat(tp[i].income_change_pct,
                           StatedPct(tp[i].income, tp[i - 1].income, tp[i - 1].income))
              /\ SameFloat(tp[i].expense_change_pct,
                           StatedPct(tp[i].expense, tp[i - 1].expense, tp[i - 1].expense))
              /\ SameFloat(tp[i].net_change_pct,
                           StatedPct(tp[i].net, tp[i - 1].net, Abs(tp[i - 1].net)))

\* C22 as stated: the trends block follows the same rules between the first
\* and the last bucket: infinity when the first value is 0 and the last is
\* not, 0 only when both are 0.
C22_AsStated ==
    (op = "summarize" /\ res.kind = "ok" /\ "trends" \in DOMAIN res) =>
        LET tp    == res.time_periods
            first == tp[1]
            last  == tp[Len(tp)]
        IN  /\ SameFloat(res.trends.income_change_pct,
                         StatedPct(last.income, first.income, first.income))
            /\ SameFloat(res.trends.expense_change_pct,
                         StatedPct(last.expense, first.expense, first.expense))
            /\ SameFloat(res.trends.net_change_pct,
                         StatedPct(last.net, first.net, Abs(first.net)))

---------------------------------------------------------------------------
(* Claims about the overall trend *)

\* The qualitative label of the claim for the change from first to last.
SignLabel(first, last, up, down) ==
    IF last - first > 0 THEN up ELSE IF last - first < 0 THEN down ELSE "stable"

\* C23: a summary has a trends block exactly when time_periods has two
\* buckets or more; there income_trend and expense_trend are 'increasing',
\* 'decreasing' or 'stable' and net_trend is 'improving', 'worsening' or
\* 'stable' as last minus first is above, below or exactly 0, and
\* start_period / end_period are the labels of the first and the last bucket.
C23_TrendsBlock ==
    (op = "summarize" /\ res.kind = "ok") =>
        LET tp    == res.time_periods
            first == tp[1]
            last  == tp[Len(tp)]
        IN  /\ ("trends" \in DOMAIN res) <=> (Len(tp) >= 2)
            /\ ("trends" \in DOMAIN res) =>
                  /\ res.trends.income_trend =
                        SignLabel(first.income, last.income, "increasing", "decreasing")
                  /\ res.trends.expense_trend =
                        SignLabel(first.expense, last.expense, "increasing", "decreasing")
                  /\ res.trends.net_trend =
                        SignLabel(first.net, last.net, "improving", "worsening")
                  /\ res.trends.start_period = first.period
                  /\ res.trends.end_period = last.period
                  /\ res.trends.period_count = Len(tp)

\* A summary over two months whose income is the same in both while expense
\* rose and net fell.
C23_Witness ==
    /\ op = "summarize"
    /\ res.kind = "ok"
    /\ "trends" \in DOMAIN res
    /\ Len(res.time_periods) = 2
    /\ res.trends.income_trend = "stable"
    /\ res.trends.expense_trend = "increasing"
    /\ res.trends.net_trend = "worsening"
    /\ res.trends.start_period = "2023-01"
    /\ res.trends.end_period = "2023-02"

---------------------------------------------------------------------------
(* Claims about the category breakdowns *)

\* The column a breakdown is keyed by: subcategory, else description, else
\* none.
GroupColumn(cols) ==
    IF "subcategory" \in cols THEN "subcategory"
    ELSE IF "description" \in cols THEN "description"
    ELSE "none"

\* The rows of pre (by position) of category c among the positions S, summed
\* per value of column col; a NaN value keys nothing.
GroupedBy(S, c, col) ==
    LET rows   == {i \in S : CategoryOf(i) = c}
        amount == [i \in 1..Len(pre.rows) |-> AmountOf(i)]
        keys   == {pre.rows[i][col] : i \in rows} \ {NullTxt}
    IN  [k \in keys |-> SumOver({i \in rows : pre.rows[i][col] = k}, amount)]

\* The descriptions of the table do not vary: it has no description column,
\* or the same description in every row.
NoDescriptionVariation(t) ==
    \/ "description" \notin t.cols
    \/ \A i, j \in 1..Len(t.rows) : t.rows[i].description = t.rows[j].description

\* C24 as stated: a table with no subcategory and no description variation
\* has the income breakdown {'General Income': total_income}.
C24_AsStated ==
    (/\ op = "summarize"
     /\ res.kind = "ok"
     /\ "subcategory" \notin pre.cols
     /\ {"category", "amount"} \subseteq categorize_transactions(pre).out.cols
     /\ NoDescriptionVariation(pre)) =>
        res.income_categories = ("General Income" :> res.income_total)

\* C24: income_categories and expense_categories hold the totals of the
\* classified Income / Expense rows per subcategory when the table has that
\* column, else per description when it has that one (one key per distinct
\* description, also when there is only one), else the single bucket
\* 'General Income' / 'General Expenses', which then equals total_income /
\* total_expenses; both are empty without category or amount.
C24_CategoryBreakdown ==
    (op = "summarize" /\ res.kind = "ok") =>
        LET cols == categorize_transactions(pre).out.cols
            col  == GroupColumn(cols)
            all  == 1..Len(pre.rows)
        IN  IF ~({"category", "amount"} \subseteq cols)
            THEN /\ DOMAIN res.income_categories = {}
                 /\ DOMAIN res.expense_categories = {}
            ELSE IF col # "none"
            THEN /\ res.income_categories = GroupedBy(all, "Income", col)
                 /\ res.expense_categories = AbsOfEach(GroupedBy(all, "Expense", col))
            ELSE /\ res.income_categories = ("General Income" :> res.income_total)
                 /\ res.expense_categories = ("General Expenses" :> res.expense_total)

\* A summary of a table with category and amount but neither subcategory nor
\* description: the whole income sits in the general bucket.
C24_Witness ==
    /\ op = "summarize"
    /\ res.kind = "ok"
    /\ pre.cols = {"date", "amount", "category"}
    /\ res.income_total = 3
    /\ res.income_categories = ("General Income" :> 3)
    /\ res.expense_total = 2
    /\ res.expense_categories = ("General Expenses" :> 2)

\* Every row of the table is dated, and all in one calendar month.
OneMonthTable(t) ==
    /\ "date" \in t.cols
    /\ Len(t.rows) > 0
    /\ \A i \in 1..Len(t.rows) : t.rows[i].date.k \in {"ts", "str"}
    /\ Cardinality(CalendarMonths(t)) = 1

\* C25 as stated: the breakdowns of a monthly bucket use the same three-level
\* grouping as the breakdowns of the summary, so that the single bucket of a
\* one-month table has the income_categories and expense_categories of the
\* summary.
C25_AsStated ==
    (op = "summarize" /\ res.kind = "ok" /\ OneMonthTable(pre)) =>
        /\ Len(res.time_periods) = 1
        /\ res.time_periods[1].income_categories = res.income_categories
        /\ res.time_periods[1].expense_categories = res.expense_categories

---------------------------------------------------------------------------
(* filter_data_by_date (src/utils/data_utils.py) in front of the           *)
(* calculators, as the report page calls them: the table is filtered       *)
(* first and the calculator gets the filtered table.                       *)

\* The filter with the end bound dropped.
filter_data_by_date_start_only(t, start, end) ==
    [caller |-> t, out |-> FilterByDates(t, start, NoDate)]

\* filter_data_by_date(df, start_date, end_date), lines 128-157: on a copy,
\* coerce date and keep the rows of [start, end]; the steps are those of
\* lines 67-77 of calculate_income_statement.
filter_data_by_date(t, start, end) ==
    [caller |-> t, out |-> FilterByDates(t, start, end)]

FilterCols ==
    {{"date", "amount", "description"},
     {"date", "amount", "description", "subcategory"},
     {"date", "amount", "description", "category"},
     {"date", "amount", "description", "transaction_type"},
     {"amount", "description"},
     {"date", "description"}}

FilterRows(c) ==
    IF c \cap {"category", "subcategory", "transaction_type"} = {}
    THEN RowsOver(c, CleanDates \cup {Null, Str(1)}, CleanAmounts,
                  {"Rent"}, {}, {}, {}, {})
    ELSE RowsOver(c, CleanDates, CleanAmounts, {"Rent"},
                  {"Income", "Expense"}, {"Wages", NullTxt}, {}, {"Sale", "LOAN"})

InitFilter ==
    /\ \E c \in FilterCols, n \in 0..MaxRows :
          \E s \in [1..n -> FilterRows(c)] :
              df = [cols |-> c, rows |-> s]
    /\ pre = df
    /\ op = "init"
    /\ args = NoArgs
    /\ res = NoRes
    /\ session_state = initialize_session_state
    /\ gemini_api_available = FALSE

\* filtered_df = filter_data_by_date(df, start_date, end_date)
Filter ==
    \E start \in BoundChoices, end \in BoundChoices :
        /\ op = "init"
        /\ LET r == filter_data_by_date(df, start, end)
           IN  /\ df' = r.caller
               /\ res' = r.out
               /\ pre' = df
               /\ op' = "filter"
               /\ UNCHANGED <<session_state, gemini_api_available>>
               /\ args' = [start |-> start, end |-> end]

\* report_data = calculate_income_statement(filtered_df)
IncomeStatementOfFiltered ==
    /\ op = "filter"
    /\ res' = calculate_income_statement(res, NoDate, NoDate).out
    /\ op' = "income_statement of filtered"
    /\ UNCHANGED <<session_state, gemini_api_available>>
    /\ UNCHANGED <<df, pre, args>>

\* calculate_cash_flow(filtered_df)
CashFlowOfFiltered ==
    /\ op = "filter"
    /\ res' = calculate_cash_flow(res, NoDate, NoDate).out
    /\ op' = "cash_flow of filtered"
    /\ UNCHANGED <<session_state, gemini_api_available>>
    /\ UNCHANGED <<df, pre, args>>

NextFilter == Filter \/ IncomeStatementOfFiltered \/ CashFlowOfFiltered

SpecFilter == InitFilter /\ [][NextFilter]_vars

\* The figures of two income statements are the same: both the error
\* marker, or equal totals and breakdowns.
SameIncomeFigures(a, b) ==
    /\ a.kind = b.kind
    /\ a.kind = "ok" =>
          /\ a.total_income = b.total_income
          /\ a.total_expenses = b.total_expenses
          /\ a.net_income = b.net_income
          /\ a.income_breakdown = b.income_breakdown
          /\ a.expense_breakdown = b.expense_breakdown

\* The flows of two cash flow statements are the same.
SameFlows(a, b) ==
    /\ a.operating_cash_flow = b.operating_cash_flow
    /\ a.investing_cash_flow = b.investing_cash_flow
    /\ a.financing_cash_flow = b.financing_cash_flow
    /\ a.net_cash_flow = b.net_cash_flow

\* C26: calculate_income_statement of the table filter_data_by_date(df,
\* start, end) returns, called with no bounds, the total_income,
\* total_expenses, net_income and breakdowns that
\* calculate_income_statement(df, start, end) returns, for every table and
\* every pair of bounds; calculate_cash_flow likewise returns the same flows.
C26_FilterThenCalculate ==
    /\ op = "income_statement of filtered" =>
          SameIncomeFigures(res,
              calculate_income_statement(pre, args.start, args.end).out)
    /\ op = "cash_flow of filtered" =>
          SameFlows(res, calculate_cash_flow(pre, args.start, args.end).out)

\* An income statement of a table filtered on both sides, which lost a row
\* to the end bound and kept an expense with a subcategory.
C26_Witness ==
    /\ op = "income_statement of filtered"
    /\ args.start # NoDate
    /\ args.end # NoDate
    /\ \E i \in 1..Len(pre.rows) :
          pre.rows[i].date.k = "ts" /\ pre.rows[i].date.v > args.end
    /\ res.kind = "ok"
    /\ res.total_expenses = 2
    /\ res.expense_breakdown = ("Wages" :> 2)

---------------------------------------------------------------------------
(* The rule-based chat on the summary of a table, as the chat page calls   *)
(* it: data_summary = summarize_financial_data(transaction_data), then     *)
(* financial_chat(prompt, transaction_summary=data_summary, ...).          *)

AdvicePrompts ==
    {"What are my assets?", "What's my financial health?", "What is my income?"}

\* The chat answers a prompt from the summary just built.
Ask ==
    \E prompt \in AdvicePrompts :
        /\ op = "summarize"
        /\ res.kind = "ok"
        /\ res' = [kind |-> "answer", summary |-> res,
                   answer |-> financial_chat(prompt, res, << >>)]
        /\ op' = "ask"
        /\ UNCHANGED <<session_state, gemini_api_available>>
        /\ args' = [prompt |-> prompt]
        /\ UNCHANGED <<df, pre>>

NextAdvice == Summarize \/ Ask

SpecAdvice == InitSummary /\ [][NextAdvice]_vars

\* The sum of the amounts of pre above 0, and of those below 0.
PositiveAmounts ==
    SumOver({i \in 1..Len(pre.rows) : AmountOf(i) > 0},
            [i \in 1..Len(pre.rows) |-> AmountOf(i)])
NegativeAmounts ==
    SumOver({i \in 1..Len(pre.rows) : AmountOf(i) < 0},
            [i \in 1..Len(pre.rows) |-> AmountOf(i)])

\* C27: in every summary the mappings assets and liabilities are empty,
\* whatever the table holds, while balance_sheet and equity carry the totals
\* computed from the amounts; so the balance sheet answer of the rule-based
\* chat reports total assets 0 and total liabilities 0, and its financial
\* health answer reports the solvency as N/A.
C27_EmptyAssetMappings ==
    /\ (op = "summarize" /\ res.kind = "ok") =>
          /\ DOMAIN res.assets = {}
          /\ DOMAIN res.liabilities = {}
          /\ res.balance_sheet.total_assets = PositiveAmounts
          /\ res.balance_sheet.total_liabilities = Abs(NegativeAmounts)
          /\ res.equity = res.balance_sheet.total_assets
                              - res.balance_sheet.total_liabilities
    /\ (op = "ask" /\ args.prompt = "What are my assets?") =>
          /\ res.answer.topic = "balance sheet"
          /\ res.answer.total_assets = 0
          /\ res.answer.total_liabilities = 0
    /\ (op = "ask" /\ args.prompt = "What's my financial health?") =>
          /\ res.answer.topic = "financial health"
          /\ res.answer.solvency = "N/A"

\* The chat was asked for the financial health of a table whose balance
\* sheet has assets 3, liabilities 2 and equity 1.
C27_Witness ==
    /\ op = "ask"
    /\ args.prompt = "What's my financial health?"
    /\ res.summary.balance_sheet.total_assets = 3
    /\ res.summary.balance_sheet.total_liabilities = 2
    /\ res.summary.equity = 1
    /\ res.answer.solvency = "N/A"

---------------------------------------------------------------------------
(* The session: src/app.py and src/components.  Streamlit runs the script  *)
(* once per user interaction; an action is one run, from the interaction   *)
(* that started it to its end, st.rerun() or an uncaught exception.  In    *)
(* this machine pre holds the session state the run started from.          *)

MaxHistory == 2
MaxReports == 1

\* datetime.now() of a run: a day after every date of the uploaded files.
Today == MaxDay + 1

pages == {"Upload Data", "Chat with FinBot", "Generate Reports", "Visualizations"}

\* One row as pd.read_csv gives it: the date a text, the amount a number.
CsvRow(d, a, desc) ==
    [EmptyRow EXCEPT !.date = Str(d), !.amount = Num(a), !.description = desc]

\* The files a user uploads: two valid tables, the second with a description
\* column of numbers only, a table without description, and a file
\* pd.read_csv raises on.
TextFile ==
    [cols |-> required_columns,
     rows |-> <<CsvRow(3, -2, "Rent"), CsvRow(1, 3, "Salary")>>]
NumberedFile ==
    [cols |-> required_columns, rows |-> <<CsvRow(1, 3, "1001")>>]
ShortFile ==
    [cols |-> {"date", "amount"}, rows |-> <<CsvRow(1, 3, AbsentTxt)>>]
Unreadable == [kind |-> "unreadable"]
UploadedFiles == {TextFile, NumberedFile, ShortFile, Unreadable}

\* data_import.py lines 33-34 with line 34 left out.
Stored_table_only(s, processed_df) ==
    [s EXCEPT !.transaction_data = processed_df]

\* data_import.py lines 33-34: the processed table and the flag.
Stored(s, processed_df) ==
    [s EXCEPT !.transaction_data = processed_df, !.data_uploaded = TRUE]

\* Clear Data keeping the chat history and the reports.
Cleared_data_only(s) ==
    [s EXCEPT !.data_uploaded = FALSE, !.transaction_data = None]

\* sidebar.py lines 59-62
Cleared(s) ==
    [s EXCEPT !.data_uploaded = FALSE,
              !.transaction_data = None,
              !.chat_history = << >>,
              !.generated_reports = << >>]

InitSession ==
    /\ df = [cols |-> {}, rows |-> << >>]
    /\ pre = initialize_session_state
    /\ op = "init"
    /\ args = NoArgs
    /\ res = NoRes
    /\ session_state = initialize_session_state
    /\ gemini_api_available \in BOOLEAN

\* sidebar.py lines 32-35: a navigation button.
Navigate ==
    \E page \in pages :
        /\ session_state' = [session_state EXCEPT !.current_page = page]
        /\ pre' = session_state
        /\ op' = "navigate"
        /\ res' = NoRes
        /\ UNCHANGED <<df, args, gemini_api_available>>

\* data_import.py lines 16-108: a file in the uploader on the Upload Data
\* page.
Upload ==
    \E file \in UploadedFiles :
        /\ session_state.current_page = "Upload Data"
        /\ pre' = session_state
        /\ op' = "upload"
        /\ UNCHANGED <<df, args, gemini_api_available>>
        /\ IF file = Unreadable
           THEN /\ res' = [kind |-> "error", error |-> "Error processing file"]
                /\ UNCHANGED session_state
           ELSE LET v == validate_transaction_data(file)
                IN  IF v.out.ok
                    THEN \E processed_df \in preprocess_transaction_data(v.caller).outs :
                            /\ session_state' = Stored(session_state, processed_df)
                            /\ res' = [kind |-> "stored"]
                    ELSE /\ res' = [kind |-> "rejected", reason |-> v.out.reason]
                         /\ UNCHANGED session_state

\* sidebar.py lines 58-63: the Clear Data button, shown with data loaded.
ClearData ==
    /\ session_state.data_uploaded
    /\ session_state' = Cleared(session_state)
    /\ pre' = session_state
    /\ op' = "clear data"
    /\ res' = NoRes
    /\ UNCHANGED <<df, args, gemini_api_available>>

\* 'error' in response.lower(), for the texts of the model.
HasError(response) ==
    /\ "text" \in DOMAIN response
    /\ response.text = "prose with error"

\* chat_interface.py lines 64-89: the primary chat function, then the
\* fallback when the answer holds 'error' or the primary raised; without a
\* fallback an exception becomes an apology.  A result of kind raise is an
\* exception that leaves the handler.
Respond(prompt, data_summary, chat_history, key, api) ==
    LET primary ==
            IF gemini_api_available
            THEN financial_chat_with_gemini(prompt, data_summary, chat_history, key, api)
            ELSE financial_chat(prompt, data_summary, chat_history)
        fallback == financial_chat(prompt, data_summary, chat_history)
    IN  IF primary.kind = "raise"
        THEN IF gemini_api_available THEN fallback
             ELSE [kind |-> "text", by |-> "chat_interface", topic |-> "apology"]
        ELSE IF HasError(primary) /\ gemini_api_available THEN fallback
        ELSE primary

SessionPrompts == {"hello", "How much have I spent on rent?"}

\* chat_interface.py lines 37-94: a prompt submitted on the chat page.
ChatTurn ==
    \E prompt \in SessionPrompts, key \in BOOLEAN, api \in ApiOutcomes, now \in {Today} :
        /\ session_state.current_page = "Chat with FinBot"
        /\ session_state.data_uploaded
        /\ Len(session_state.chat_history) + 2 <= MaxHistory
        /\ pre' = session_state
        /\ op' = "chat"
        /\ UNCHANGED <<df, args, gemini_api_available>>
        /\ LET s  == session_state
               sm == IF s.transaction_data # None
                     THEN summarize_financial_data(s.transaction_data, now)
                     ELSE [caller |-> None, out |-> NoSummary]
               asked == Append(s.chat_history, [role |-> "user", content |-> prompt])
               response == Respond(prompt, sm.out, asked, key, api)
           IN  IF sm.out.kind = "raise"
               THEN /\ session_state' = [s EXCEPT !.transaction_data = sm.caller]
                    /\ res' = [kind |-> "raise", at |-> "summarize_financial_data"]
               ELSE IF response.kind = "raise"
               THEN /\ session_state' = [s EXCEPT !.transaction_data = sm.caller,
                                                  !.chat_history = asked]
                    /\ res' = [kind |-> "raise", at |-> "fallback_chat_function"]
               ELSE /\ session_state' =
                          [s EXCEPT !.transaction_data = sm.caller,
                                    !.chat_history =
                                        Append(asked, [role |-> "assistant",
                                                       content |-> response])]
                    /\ res' = [kind |-> "answered", by |-> response.by]

\* chat_interface.py lines 112-114: the Clear Chat History button.
ClearChat ==
    /\ session_state.current_page = "Chat with FinBot"
    /\ session_state.data_uploaded
    /\ session_state' = [session_state EXCEPT !.chat_history = << >>]
    /\ pre' = session_state
    /\ op' = "clear chat"
    /\ res' = NoRes
    /\ UNCHANGED <<df, args, gemini_api_available>>

ReportTypes ==
    {"Income Statement", "Balance Sheet", "Cash Flow Statement", "Financial Summary"}

\* report_generator.py lines 97-116: the report data of a type.
ReportData(report_type, filtered_df, start, end, now) ==
    CASE report_type = "Income Statement" ->
             calculate_income_statement(filtered_df, NoDate, NoDate).out
      [] report_type = "Balance Sheet" ->
             calculate_balance_sheet(filtered_df, end, now).out
      [] report_type = "Cash Flow Statement" ->
             calculate_cash_flow(filtered_df, start, end).out
      [] report_type = "Financial Summary" ->
             summarize_financial_data(filtered_df, now).out

\* report_generator.py lines 36-133: the Generate button with the date
\* inputs at their defaults, the first and the last date of the table.  The
\* PDF builders of utils/report_utils.py either return or raise.
GenerateReport ==
    \E report_type \in ReportTypes, pdf \in {"built", "raise"}, now \in {Today} :
        /\ session_state.current_page = "Generate Reports"
        /\ session_state.data_uploaded
        /\ session_state.transaction_data # None
        /\ pre' = session_state
        /\ op' = "report"
        /\ UNCHANGED <<df, args, gemini_api_available>>
        /\ LET s     == session_state
               t     == s.transaction_data
               start == IF report_type = "Balance Sheet" THEN NoDate ELSE MinDate(t.rows)
               end   == MaxDate(t.rows)
               filtered_df == filter_data_by_date(t, start, end).out
               report_data == ReportData(report_type, filtered_df, start, end, now)
               report_key  == <<report_type, start, end>>
               fits == \/ report_key \in DOMAIN s.generated_reports
                       \/ Cardinality(DOMAIN s.generated_reports) < MaxReports
           IN  IF report_data.kind = "raise" \/ pdf = "raise" \/ ~fits
               THEN /\ res' = [kind |-> "error", error |-> "Error generating report"]
                    /\ UNCHANGED session_state
               ELSE /\ session_state' =
                          [s EXCEPT !.generated_reports =
                              (report_key :> [type |-> report_type, data |-> report_data])
                                  @@ @]
                    /\ res' = [kind |-> "generated", key |-> report_key]

\* visualizations.py lines 16-60: the page computes a summary of a filtered
\* copy and draws it; the session is not written.
Visualize ==
    /\ session_state.current_page = "Visualizations"
    /\ session_state.data_uploaded
    /\ session_state.transaction_data # None
    /\ pre' = session_state
    /\ op' = "visualize"
    /\ res' = NoRes
    /\ UNCHANGED <<df, args, session_state, gemini_api_available>>

NextSession ==
    \/ Navigate \/ Upload \/ ClearData \/ ChatTurn \/ ClearChat
    \/ GenerateReport \/ Visualize

SpecSession == InitSession /\ [][NextSession]_vars

---------------------------------------------------------------------------
(* Claims about the session *)

\* C28: in every reachable session state data_uploaded is true exactly when
\* transaction_data is not None, and an upload that fails validation (or
\* cannot be read) changes neither of the two.
C28_UploadedIffData ==
    /\ session_state.data_uploaded <=> (session_state.transaction_data # None)
    /\ (op = "upload" /\ res.kind \in {"rejected", "error"}) =>
          /\ session_state.data_uploaded = pre.data_uploaded
          /\ session_state.transaction_data = pre.transaction_data

\* A rejected upload in a session that holds data from an earlier upload.
C28_Witness ==
    /\ op = "upload"
    /\ res.kind = "rejected"
    /\ res.reason = "missing columns"
    /\ session_state.data_uploaded
    /\ session_state.transaction_data # None

\* C29: in every reachable session state without uploaded data,
\* chat_history and generated_reports are empty; the chat, report and
\* visualization pages have only run with data uploaded.
C29_NothingWithoutData ==
    /\ ~session_state.data_uploaded =>
          /\ session_state.chat_history = << >>
          /\ DOMAIN session_state.generated_reports = {}
    /\ op \in {"chat", "clear chat", "report", "visualize"} =>
          /\ pre.data_uploaded
          /\ session_state.data_uploaded

\* Clear Data in a session that had a chat history and a report.
C29_Witness ==
    /\ op = "clear data"
    /\ pre.data_uploaded
    /\ Len(pre.chat_history) > 0
    /\ DOMAIN pre.generated_reports # {}
    /\ ~session_state.data_uploaded
    /\ session_state.chat_history = << >>

\* C30 as stated: chat_history always has even length and alternates user,
\* assistant, user, assistant.
C30_AsStated ==
    LET h == session_state.chat_history
    IN  /\ Len(h) % 2 = 0
        /\ \A i \in 1..Len(h) :
              h[i].role = IF i % 2 = 1 THEN "user" ELSE "assistant"

=============================================================================
